---- MODULE Spec2Model ----
(***************************************************************************)
(* fs/crypto/keyinfo.c: per-inode encryption key setup.                    *)
(*                                                                         *)
(* Threads call fscrypt_get_encryption_info(inode) and                     *)
(* fscrypt_put_encryption_info(inode); the keyring changes underneath      *)
(* them.  Shared state: each inode's i_crypt_info slot, the                *)
(* fscrypt_master_keys table under fscrypt_master_keys_lock, the global    *)
(* essiv_hash_tfm, and the logon keys with their semaphores.               *)
(*                                                                         *)
(* Key bytes are symbolic terms: [kind, kid, nonce, len] stands for the    *)
(* first len bytes of key kid (kind raw), for their AES-128-ECB encryption *)
(* under a nonce (kind aes), or for the SHA-256 digest of such a term.     *)
(* Distinct key ids differ within their first 16 bytes.                    *)
(***************************************************************************)
EXTENDS Integers, Sequences, FiniteSets, TLC

(* ------------------------------ bounds -------------------------------- *)
NumThreads == 2
NumInodes == 2
\* keyring changes (add, update, revoke, unlink) the environment makes
MaxKeyOps == 1

Threads == 1..NumThreads
Inodes == 1..NumInodes
\* one info per inode plus one candidate per thread is all that can be live
InfoIds == 1..(NumInodes + NumThreads)
MkIds == 1..(NumInodes + NumThreads)
NULL == 0

(* ------------------------ constants of the code ----------------------- *)
FS_ENCRYPTION_CONTEXT_FORMAT_V1 == 1
FS_MAX_KEY_SIZE == 64
AES_BLOCK_SIZE == 16
\* offsetofend(union fscrypt_iv, nonce): an 8-byte block number and the nonce
IV_NONCE_END == 24
SHA256_DIGEST_SIZE == 32

FS_POLICY_FLAG_DIRECT_KEY == "DIRECT_KEY"
\* the padding bits and DIRECT_KEY; any other bit is invalid
FS_POLICY_FLAGS_VALID == {"PAD_16", "PAD_32", "DIRECT_KEY"}

FS_KEY_DESC_PREFIX == "fscrypt:"
FS_KEY_PREFIX == "fs:"
Prefixes == {FS_KEY_DESC_PREFIX, FS_KEY_PREFIX}

\* available_modes[]
available_modes ==
  [ AES_256_XTS |-> [friendly_name |-> "AES-256-XTS", cipher_str |-> "xts(aes)",
                     keysize |-> 64, ivsize |-> 16,
                     needs_essiv |-> FALSE, inline_encryption |-> FALSE],
    AES_256_CTS |-> [friendly_name |-> "AES-256-CTS-CBC", cipher_str |-> "cts(cbc(aes))",
                     keysize |-> 32, ivsize |-> 16,
                     needs_essiv |-> FALSE, inline_encryption |-> FALSE],
    AES_128_CBC |-> [friendly_name |-> "AES-128-CBC", cipher_str |-> "cbc(aes)",
                     keysize |-> 16, ivsize |-> 16,
                     needs_essiv |-> TRUE, inline_encryption |-> FALSE],
    AES_128_CTS |-> [friendly_name |-> "AES-128-CTS-CBC", cipher_str |-> "cts(cbc(aes))",
                     keysize |-> 16, ivsize |-> 16,
                     needs_essiv |-> FALSE, inline_encryption |-> FALSE],
    ADIANTUM    |-> [friendly_name |-> "Adiantum", cipher_str |-> "adiantum(xchacha12,aes)",
                     keysize |-> 32, ivsize |-> 32,
                     needs_essiv |-> FALSE, inline_encryption |-> FALSE],
    PRIVATE     |-> [friendly_name |-> "ice", cipher_str |-> "xts(aes)",
                     keysize |-> 64, ivsize |-> 16,
                     needs_essiv |-> FALSE, inline_encryption |-> TRUE] ]

ModeIds == DOMAIN available_modes
NoMode == "none"

\* fscrypt_valid_enc_modes() of fscrypt_private.h: the allowed pairs
fscrypt_valid_enc_modes(contents_mode, filenames_mode) ==
  \/ contents_mode = "AES_128_CBC" /\ filenames_mode = "AES_128_CTS"
  \/ contents_mode = "AES_256_XTS" /\ filenames_mode = "AES_256_CTS"
  \/ contents_mode = "ADIANTUM" /\ filenames_mode = "ADIANTUM"
  \/ contents_mode = "PRIVATE" /\ filenames_mode = "AES_256_CTS"

(* ----------------------------- key bytes ------------------------------ *)
Zeroed == [kind |-> "zero", kid |-> "-", nonce |-> "-", len |-> 0]
Uninit == [kind |-> "uninit", kid |-> "-", nonce |-> "-", len |-> 0]
NoBuf == [kind |-> "nobuf", kid |-> "-", nonce |-> "-", len |-> 0]

IsSecret(b) == b.kind \notin {"zero", "uninit", "nobuf"}

\* the first n bytes of the payload's raw[]
RawBytes(kid, n) == [kind |-> "raw", kid |-> kid, nonce |-> "-", len |-> n]

\* derive_key_aes(): AES-128-ECB of the first derived_keysize bytes of the
\* master key, keyed by the nonce
derive_key_aes(kid, nonce, derived_keysize) ==
  [kind |-> "aes", kid |-> kid, nonce |-> nonce, len |-> derived_keysize]

\* crypto_shash_digest() with sha256 over the first keysize bytes of key
sha256(key, keysize) ==
  [kind |-> "sha256_" \o key.kind, kid |-> key.kid, nonce |-> key.nonce,
   len |-> IF keysize < key.len THEN keysize ELSE key.len]

(* ------------------------- inodes and policies ------------------------ *)
\* What the filesystem holds for an inode: its kind, what get_context()
\* returns (ctx: "ok" a full context, "short" a wrong size, "err" an error),
\* the context's fields, and the superblock's answers.
BasePolicy ==
  [kind |-> "REG", ctx |-> "ok", format |-> FS_ENCRYPTION_CONTEXT_FORMAT_V1,
   contents_encryption_mode |-> "AES_256_XTS",
   filenames_encryption_mode |-> "AES_256_CTS",
   flags |-> {}, master_key_descriptor |-> "D1",
   encrypted |-> TRUE, dummy |-> FALSE, ice |-> FALSE, key_prefix |-> TRUE,
   sdp |-> "none"]

Policies ==
  { BasePolicy,
    [BasePolicy EXCEPT !.contents_encryption_mode = "AES_128_CBC",
                       !.filenames_encryption_mode = "AES_128_CTS"],
    [BasePolicy EXCEPT !.contents_encryption_mode = "ADIANTUM",
                       !.filenames_encryption_mode = "ADIANTUM",
                       !.flags = {FS_POLICY_FLAG_DIRECT_KEY}],
    [BasePolicy EXCEPT !.flags = {FS_POLICY_FLAG_DIRECT_KEY}],
    [BasePolicy EXCEPT !.format = 2],
    [BasePolicy EXCEPT !.flags = {"UNKNOWN"}],
    [BasePolicy EXCEPT !.contents_encryption_mode = "PRIVATE", !.ice = TRUE],
    [BasePolicy EXCEPT !.contents_encryption_mode = "PRIVATE"],
    [BasePolicy EXCEPT !.filenames_encryption_mode = "ADIANTUM"],
    [BasePolicy EXCEPT !.kind = "OTHER"],
    [BasePolicy EXCEPT !.ctx = "short"],
    [BasePolicy EXCEPT !.ctx = "err"],
    [BasePolicy EXCEPT !.kind = "DIR", !.ctx = "err", !.encrypted = FALSE,
                       !.dummy = TRUE],
    [BasePolicy EXCEPT !.flags = {FS_POLICY_FLAG_DIRECT_KEY},
                       !.sdp = "unclassified"],
    [BasePolicy EXCEPT !.sdp = "classified"] }

\* a classified file with AES-128-CBC contents and DIRECT_KEY
ClassifiedDirectPolicy ==
  [BasePolicy EXCEPT !.contents_encryption_mode = "AES_128_CBC",
                     !.filenames_encryption_mode = "AES_128_CTS",
                     !.flags = {FS_POLICY_FLAG_DIRECT_KEY},
                     !.sdp = "classified"]
\* a file of a filesystem that defines no key prefix of its own
NoPrefixPolicy == [BasePolicy EXCEPT !.key_prefix = FALSE]
\* a file with an inline-encryption contents mode and DIRECT_KEY, on a volume
\* that supports inline encryption
DirectInlinePolicy ==
  [BasePolicy EXCEPT !.contents_encryption_mode = "PRIVATE", !.ice = TRUE,
                     !.flags = {FS_POLICY_FLAG_DIRECT_KEY}]
\* a directory and a symbolic link whose contents mode is inline, on a volume
\* without inline encryption
DirInlinePolicy ==
  [BasePolicy EXCEPT !.kind = "DIR", !.contents_encryption_mode = "PRIVATE"]
LnkInlinePolicy ==
  [BasePolicy EXCEPT !.kind = "LNK", !.contents_encryption_mode = "PRIVATE"]
\* an inode with no encryption context
Unencrypted == [BasePolicy EXCEPT !.ctx = "err", !.encrypted = FALSE]

\* the nonce of an inode's context: each inode has its own
NonceOf(i) == i

Descriptors == {"D1", "DUMMY"}
KeySlots == Prefixes \X Descriptors

\* A logon key's payload: whether ukp->datalen is sizeof(struct fscrypt_key),
\* the declared size, and which key the raw bytes are.
Payloads ==
  { [datalen_ok |-> TRUE, size |-> 64, kid |-> "K1"],
    [datalen_ok |-> TRUE, size |-> 64, kid |-> "K2"],
    [datalen_ok |-> TRUE, size |-> 32, kid |-> "K1"],
    [datalen_ok |-> FALSE, size |-> 64, kid |-> "K1"] }
NoPayload == [datalen_ok |-> FALSE, size |-> 0, kid |-> "-"]
AbsentKey == [state |-> "absent", payload |-> NoPayload]
ValidKey ==
  [state |-> "live", payload |-> [datalen_ok |-> TRUE, size |-> 64, kid |-> "K1"]]

\* the keyrings a run starts from: no key at all, or a valid key under the
\* primary prefix
InitialKeyrings ==
  { [k \in KeySlots |-> AbsentKey],
    [k \in KeySlots |-> IF k = << FS_KEY_DESC_PREFIX, "D1" >> THEN ValidKey
                        ELSE AbsentKey] }

\* the policies the inodes of a run have: the same for all, as under one
\* encrypted directory, or one classified DIRECT_KEY file among unencrypted
\* inodes, or one file of a filesystem with no key prefix of its own, or one
\* DIRECT_KEY file with an inline mode, or one directory or symbolic link
PolicyAssignments ==
  { [i \in Inodes |-> p] : p \in Policies }
  \cup { [i \in Inodes |-> IF i = 1 THEN p ELSE Unencrypted] :
           p \in {ClassifiedDirectPolicy, NoPrefixPolicy,
                  DirectInlinePolicy, DirInlinePolicy, LnkInlinePolicy} }

(* ------------------------------ handles ------------------------------- *)
\* A transform handle is named by the object it was allocated for.
NoTfm == [owner |-> "none", id |-> 0]
Tfm(owner, id) == [owner |-> owner, id |-> id]

FreeInfo ==
  [live |-> FALSE, inode |-> NULL, ci_flags |-> {}, ci_data_mode |-> NoMode,
   ci_filename_mode |-> NoMode, ci_master_key_descriptor |-> "-",
   ci_nonce |-> 0, ci_mode |-> NoMode, ci_master_key |-> NULL,
   ci_ctfm |-> NoTfm, ci_essiv_tfm |-> NoTfm, ci_raw_key |-> Zeroed,
   ci_sdp_info |-> FALSE]

FreeMk ==
  [live |-> FALSE, mk_refcount |-> 0, mk_mode |-> NoMode, mk_ctfm |-> NoTfm,
   mk_descriptor |-> "-", mk_raw |-> Zeroed]

NoKey == <<"-", "-">>

IdleLocals ==
  [op |-> "idle", inode |-> NULL, crypt_info |-> NULL, raw_key |-> NoBuf,
   mode |-> NoMode, res |-> "0", prefix |-> "-", key |-> NoKey,
   key_locked |-> FALSE, payload |-> NoPayload, mk |-> NULL,
   to_insert |-> NULL, shash |-> NoTfm, hash_used |-> NoTfm,
   lookups |-> << >>, steps |-> {}]

VARIABLES
  policy,                   \* [Inodes -> Policies], fixed by the filesystem
  i_crypt_info,             \* inode->i_crypt_info: an info id or NULL
  info,                     \* the fscrypt_info objects of fscrypt_info_cachep
  mk,                       \* the fscrypt_master_key objects
  fscrypt_master_keys,      \* the hash table: linked mk ids, newest first
  fscrypt_master_keys_lock, \* the thread holding the spinlock, or NULL
  essiv_hash_tfm,           \* the global SHA-256 transform, or NoTfm
  tfms,                     \* the allocated transforms: [h, key]
  keyring,                  \* [KeySlots -> key]
  keyOps,                   \* keyring changes made so far
  pc,                       \* [Threads -> where the thread is]
  loc,                      \* [Threads -> its local variables]
  freedSecret,              \* buffers released while still holding secret bytes
  leakedTfms,               \* kinds of transform left allocated with no owner
  lockedOps,                \* what was allocated or freed with the spinlock held
  warned                    \* the WARN_ON / WARN_ONCE assertions that fired

vars == << policy, i_crypt_info, info, mk, fscrypt_master_keys,
           fscrypt_master_keys_lock, essiv_hash_tfm, tfms, keyring, keyOps,
           pc, loc, freedSecret, leakedTfms, lockedOps,
           warned >>

Init ==
  /\ policy \in PolicyAssignments
  /\ i_crypt_info = [i \in Inodes |-> NULL]
  /\ info = [c \in InfoIds |-> FreeInfo]
  /\ mk = [m \in MkIds |-> FreeMk]
  /\ fscrypt_master_keys = << >>
  /\ fscrypt_master_keys_lock = NULL
  /\ essiv_hash_tfm = NoTfm
  /\ tfms = {}
  /\ keyring \in InitialKeyrings
  /\ keyOps = 0
  /\ pc = [t \in Threads |-> "idle"]
  /\ loc = [t \in Threads |-> IdleLocals]
  /\ freedSecret = {}
  /\ leakedTfms = {}
  /\ lockedOps = {}
  /\ warned = {}

(* ------------------------------ helpers ------------------------------- *)
Min(S) == CHOOSE x \in S : \A y \in S : x <= y

\* kmem_cache_zalloc(fscrypt_info_cachep): the free object the cache hands out
NewInfo == Min({c \in InfoIds : ~info[c].live})
\* kzalloc(sizeof(*mk))
NewMk == Min({m \in MkIds : ~mk[m].live})

ModeOf(t) == available_modes[loc[t].mode]
HasDirectKey(flags) == FS_POLICY_FLAG_DIRECT_KEY \in flags

Goto(t, where) == pc' = [pc EXCEPT ![t] = where]
SetLoc(t, l) == loc' = [loc EXCEPT ![t] = l]

\* the eviction contract of fscrypt_put_encryption_info(): the inode is being
\* evicted, nothing else uses it
Evicting(i) ==
  \E t \in Threads : pc[t] # "idle" /\ loc[t].op = "put" /\ loc[t].inode = i
InUse(i) == \E t \in Threads : pc[t] # "idle" /\ loc[t].inode = i

\* what a returned call leaves to look at: the call and its result
Done(l) ==
  [IdleLocals EXCEPT !.op = l.op, !.inode = l.inode, !.res = l.res,
                     !.lookups = l.lookups, !.steps = l.steps,
                     !.key = l.key, !.key_locked = l.key_locked]

(* ------------------------ releasing key buffers ----------------------- *)
\* a release of the key buffer that does not zero it
kfree_raw_key(buf) == buf
\* kzfree(raw_key) of fscrypt_get_encryption_info() (line 678) zeroes first
kzfree_raw_key(buf) == Zeroed
\* memset(ci->ci_raw_key, 0, ...) of put_crypt_info() (line 538)
memset_ci_raw_key(buf) == Zeroed
\* kzfree(mk) of free_master_key() (line 317) zeroes mk_raw
kzfree_mk(buf) == Zeroed
\* memzero_explicit(salt, ...) of init_essiv_generator() (line 469)
memzero_salt(buf) == Zeroed

\* what a release records: the buffer's name when secret bytes are left in it
Leak(what, buf) == IF IsSecret(buf) THEN {what} ELSE {}

(* --------------------------- put_crypt_info --------------------------- *)
\* the return of put_crypt_info() to its caller: fscrypt_get_encryption_info()
\* frees the key buffer and returns (lines 678-679),
\* fscrypt_put_encryption_info() goes on to clear the slot
AfterPut(t, l, leaks) ==
  IF l.op = "get"
  THEN /\ Goto(t, "done")
       /\ SetLoc(t, Done(l))
       /\ freedSecret' = freedSecret \cup leaks
                           \cup Leak("raw_key", kzfree_raw_key(l.raw_key))
  ELSE /\ Goto(t, "put_clear")
       /\ SetLoc(t, l)
       /\ freedSecret' = freedSecret \cup leaks

\* the transforms put_crypt_info() frees itself (lines 530-537): none when
\* the info has a master key
OwnTfms(c) ==
  IF c.ci_master_key # NULL THEN {}
  ELSE {c.ci_ctfm, c.ci_essiv_tfm} \ {NoTfm}

\* the transforms of an info that put_crypt_info() leaves allocated with
\* nothing pointing to them any more: the ESSIV cipher of an info that has a
\* master key (lines 530-537)
Orphans(c) ==
  IF c.ci_master_key # NULL THEN {c.ci_essiv_tfm} \ {NoTfm} ELSE {}
Kinds(hs) == {h.owner : h \in hs}

\* put_crypt_info(l.crypt_info) up to its put_master_key(), or all of it,
\* from the infos, the transforms and the leaks its caller leaves
PutCryptInfo(t, l, info1, tfms1, leaks1) ==
  LET ci == l.crypt_info IN
  IF ci = NULL
  THEN /\ AfterPut(t, l, leaks1)
       /\ info' = info1
       /\ tfms' = tfms1
  ELSE IF info1[ci].ci_master_key # NULL
  THEN /\ Goto(t, "put_mk")
       /\ SetLoc(t, [l EXCEPT !.mk = info1[ci].ci_master_key])
       /\ info' = info1
       /\ tfms' = tfms1
       /\ freedSecret' = freedSecret \cup leaks1
  ELSE /\ tfms' = {x \in tfms1 : x.h \notin OwnTfms(info1[ci])}
       /\ info' = [info1 EXCEPT ![ci] = FreeInfo]
       /\ AfterPut(t, l, leaks1 \cup Leak("ci_raw_key",
                                          memset_ci_raw_key(info1[ci].ci_raw_key)))

\* an out: that passes -ENOKEY on to the caller
OutKeepsENOKEY(t, l, info1, tfms1, leaks1) ==
  PutCryptInfo(t, l, info1, tfms1, leaks1)

\* out: of fscrypt_get_encryption_info() (lines 674-679): -ENOKEY is
\* reported as success, the candidate and the key buffer are released
Out(t, l, info1, tfms1, leaks1) ==
  PutCryptInfo(t, [l EXCEPT !.res = IF @ = "ENOKEY" THEN "0" ELSE @],
               info1, tfms1, leaks1)

(* ------------------------ fscrypt_master_keys_lock -------------------- *)
\* spin_unlock(&fscrypt_master_keys_lock) (lines 326, 365, 371)
spin_unlock(holder) == NULL

\* statements that run before the spin_unlock() they follow in the source
before_spin_unlock(before, after) == before

\* the holder of the lock at the statements that follow spin_unlock() in
\* put_master_key() (line 327) and fscrypt_get_master_key() (lines 385-407)
after_spin_unlock(before, after) == after

\* what thread t does to transforms and entries is recorded when the holder
\* of the lock at that point is t
UnderLock(holder, t, ops) == IF holder = t THEN ops ELSE {}

(* --------------------------- put_master_key --------------------------- *)
TfmsWithout(hs) == {x \in tfms : x.h \notin hs}

\* a decrement that never takes the lock
refcount_dec_always(n) == TRUE

\* refcount_dec_not_one() of refcount_dec_and_lock() (line 323): whether the
\* count can be decremented without the lock
refcount_dec_not_one(n) == n # 1

\* refcount_dec_and_lock(): the count is decremented without the lock unless
\* it is 1 (refcount_dec_not_one); then the rest of put_crypt_info()
PutMk(t) ==
  /\ pc[t] = "put_mk"
  /\ LET l == loc[t]
         m == l.mk
         ci == l.crypt_info
     IN IF refcount_dec_not_one(mk[m].mk_refcount)
        THEN /\ mk' = [mk EXCEPT ![m].mk_refcount =
                         IF @ = 0 THEN 0 ELSE @ - 1]
             /\ warned' = IF mk[m].mk_refcount = 0
                          THEN warned \cup {"refcount_underflow"} ELSE warned
             /\ info' = [info EXCEPT ![ci] = FreeInfo]
             /\ tfms' = TfmsWithout(Orphans(info[ci]))
             /\ leakedTfms' = leakedTfms \cup Kinds(Orphans(info[ci]))
             /\ AfterPut(t, l, Leak("ci_raw_key",
                                    memset_ci_raw_key(info[ci].ci_raw_key)))
        ELSE /\ Goto(t, "put_mk_lock")
             /\ UNCHANGED << mk, info, loc, freedSecret, warned, tfms,
                             leakedTfms >>
  /\ UNCHANGED << policy, i_crypt_info, fscrypt_master_keys, lockedOps,
                  fscrypt_master_keys_lock, essiv_hash_tfm, keyring, keyOps >>

\* spin_lock(&fscrypt_master_keys_lock) of refcount_dec_and_lock()
PutMkLock(t) ==
  /\ pc[t] = "put_mk_lock"
  /\ fscrypt_master_keys_lock = NULL
  /\ fscrypt_master_keys_lock' = t
  /\ Goto(t, "put_mk_locked")
  /\ UNCHANGED << leakedTfms, lockedOps, policy, i_crypt_info, info, mk, fscrypt_master_keys,
                  essiv_hash_tfm, tfms, keyring, keyOps, loc, freedSecret,
                  warned >>

\* an entry that is freed without being unlinked
no_hash_del(m) == fscrypt_master_keys

\* hash_del(): the list without m
hash_del(m) == SelectSeq(fscrypt_master_keys, LAMBDA x : x # m)

\* the decrement under the lock; at zero hash_del(), spin_unlock(),
\* free_master_key() (lines 325-328); then the rest of put_crypt_info()
PutMkLocked(t) ==
  /\ pc[t] = "put_mk_locked"
  /\ LET l == loc[t]
         m == l.mk
         ci == l.crypt_info
         ciLeak == Leak("ci_raw_key", memset_ci_raw_key(info[ci].ci_raw_key))
     IN /\ IF mk[m].mk_refcount - 1 = 0
           THEN /\ fscrypt_master_keys' = hash_del(m)
                /\ tfms' = TfmsWithout({mk[m].mk_ctfm} \cup Orphans(info[ci]))
                /\ mk' = [mk EXCEPT ![m] = FreeMk]
                /\ AfterPut(t, l, ciLeak \cup Leak("mk_raw", kzfree_mk(mk[m].mk_raw)))
           ELSE /\ mk' = [mk EXCEPT ![m].mk_refcount = @ - 1]
                /\ AfterPut(t, l, ciLeak)
                /\ tfms' = TfmsWithout(Orphans(info[ci]))
                /\ UNCHANGED fscrypt_master_keys
        /\ info' = [info EXCEPT ![ci] = FreeInfo]
        /\ leakedTfms' = leakedTfms \cup Kinds(Orphans(info[ci]))
        /\ lockedOps' = lockedOps \cup
             UnderLock(after_spin_unlock(fscrypt_master_keys_lock,
                                         spin_unlock(fscrypt_master_keys_lock)),
                       t, IF mk[m].mk_refcount - 1 = 0
                          THEN {"free_master_key"} ELSE {})
  /\ fscrypt_master_keys_lock' = spin_unlock(fscrypt_master_keys_lock)
  /\ UNCHANGED << policy, i_crypt_info, essiv_hash_tfm, keyring,
                  keyOps, warned >>

(* ----------------------- setup_crypto_transform ----------------------- *)
\* the two WARN_ONs of setup_crypto_transform() (lines 507-508)
EssivWarnings(mode, flags) ==
  (IF mode.needs_essiv /\ mode.ivsize # AES_BLOCK_SIZE
   THEN {"essiv_ivsize"} ELSE {})
  \cup (IF mode.needs_essiv /\ HasDirectKey(flags)
        THEN {"essiv_direct_key"} ELSE {})

\* a setup that never initialises the ESSIV generator
WithoutEssiv(mode) == "install"
\* where setup_crypto_transform() goes once ci_ctfm is set (line 505)
AfterCtfm(mode) == IF mode.needs_essiv THEN "essiv" ELSE "install"

\* an inline mode whose key is never copied to the info
no_memcpy_raw_key(raw_key, keysize) == Zeroed

\* memcpy(crypt_info->ci_raw_key, raw_key, mode->keysize) (line 665)
memcpy_raw_key(raw_key, keysize) ==
  [raw_key EXCEPT !.len = IF keysize < @ THEN keysize ELSE @]

\* lines 660-666, and setup_crypto_transform() up to its first shared step,
\* for the locals l and the infos info1 its caller leaves: an inline mode
\* keeps the raw key, DIRECT_KEY goes to the master key table, any other
\* policy gets a transform of its own
Setup(t, l, info1) ==
  LET ci == l.crypt_info
      mode == ModeOf(t)
  IN IF mode.inline_encryption
     THEN /\ info' = [info1 EXCEPT ![ci].ci_raw_key =
                                     memcpy_raw_key(l.raw_key, mode.keysize)]
          /\ Goto(t, "install")
          /\ SetLoc(t, l)
          /\ UNCHANGED << tfms, warned, freedSecret >>
     ELSE IF HasDirectKey(info1[ci].ci_flags)
     THEN /\ Goto(t, "mk_find_lock")
          /\ SetLoc(t, [l EXCEPT !.to_insert = NULL, !.steps = @ \cup {"cache"}])
          /\ info' = info1
          /\ UNCHANGED << tfms, warned, freedSecret >>
     ELSE \E fail \in {"none", "alloc", "setkey"} :
          /\ IF fail # "none"
             THEN /\ Out(t, [l EXCEPT !.res = IF fail = "alloc" THEN "ENOMEM"
                                              ELSE "EINVAL",
                                      !.steps = @ \cup {"cipher_alloc"}],
                         info1, tfms, {})
                  /\ UNCHANGED warned
             ELSE /\ tfms' = tfms \cup {[h |-> Tfm("ci", ci), key |-> l.raw_key]}
                  /\ info' = [info1 EXCEPT ![ci].ci_ctfm = Tfm("ci", ci),
                                           ![ci].ci_master_key = NULL]
                  /\ warned' = warned \cup EssivWarnings(mode, info1[ci].ci_flags)
                  /\ Goto(t, AfterCtfm(mode))
                  /\ SetLoc(t, [l EXCEPT !.steps = @ \cup {"cipher_alloc"}])
                  /\ UNCHANGED freedSecret

(* ---------------------- fscrypt_get_encryption_info ------------------- *)
NoContext(res) ==
  [res |-> res, format |-> 0, contents_encryption_mode |-> NoMode,
   filenames_encryption_mode |-> NoMode, flags |-> {},
   master_key_descriptor |-> "-", nonce |-> 0, sdp |-> "none"]

\* s_cop->get_context() and the context faked up for an unencrypted
\* directory when a dummy context is enabled (lines 566-580): the context
\* read, or the error returned
get_context(i) ==
  LET p == policy[i] IN
  IF p.ctx = "err"
  THEN IF ~p.dummy \/ p.encrypted
       THEN NoContext("ENODATA")
       ELSE [res |-> "0", format |-> FS_ENCRYPTION_CONTEXT_FORMAT_V1,
             contents_encryption_mode |->
               IF p.ice THEN "PRIVATE" ELSE "AES_256_XTS",
             filenames_encryption_mode |-> "AES_256_CTS", flags |-> {},
             master_key_descriptor |-> "DUMMY", nonce |-> 0, sdp |-> "none"]
  ELSE IF p.ctx = "short"
  THEN NoContext("EINVAL")
  ELSE [res |-> "0", format |-> p.format,
        contents_encryption_mode |-> p.contents_encryption_mode,
        filenames_encryption_mode |-> p.filenames_encryption_mode,
        flags |-> p.flags, master_key_descriptor |-> p.master_key_descriptor,
        nonce |-> NonceOf(i), sdp |-> p.sdp]

\* a selection that makes the inline check for every kind of inode
select_with_inline_check(data_mode, filename_mode, p) ==
  IF ~fscrypt_valid_enc_modes(data_mode, filename_mode)
  THEN [mode |-> NoMode, err |-> "EINVAL", warn |-> FALSE]
  ELSE IF available_modes[data_mode].inline_encryption /\ ~p.ice
  THEN [mode |-> NoMode, err |-> "EINVAL", warn |-> FALSE]
  ELSE IF p.kind = "REG"
  THEN [mode |-> data_mode, err |-> "0", warn |-> FALSE]
  ELSE IF p.kind \in {"DIR", "LNK"}
  THEN [mode |-> filename_mode, err |-> "0", warn |-> FALSE]
  ELSE [mode |-> NoMode, err |-> "EINVAL", warn |-> TRUE]

\* select_encryption_mode(): the mode, or the error, and whether it warned
select_encryption_mode(data_mode, filename_mode, p) ==
  IF ~fscrypt_valid_enc_modes(data_mode, filename_mode)
  THEN [mode |-> NoMode, err |-> "EINVAL", warn |-> FALSE]
  ELSE IF p.kind = "REG"
  THEN IF available_modes[data_mode].inline_encryption /\ ~p.ice
       THEN [mode |-> NoMode, err |-> "EINVAL", warn |-> FALSE]
       ELSE [mode |-> data_mode, err |-> "0", warn |-> FALSE]
  ELSE IF p.kind \in {"DIR", "LNK"}
  THEN [mode |-> filename_mode, err |-> "0", warn |-> FALSE]
  ELSE [mode |-> NoMode, err |-> "EINVAL", warn |-> TRUE]

\* a validation that leaves the flags out
validate_context_without_flags(ctx) ==
  IF ctx.res # "0" THEN ctx.res
  ELSE IF ctx.format # FS_ENCRYPTION_CONTEXT_FORMAT_V1 THEN "EINVAL"
  ELSE "0"

\* the checks made on the context before anything is allocated
\* (lines 566-586): "0" or the error returned
validate_context(ctx) ==
  IF ctx.res # "0" THEN ctx.res
  ELSE IF ctx.format # FS_ENCRYPTION_CONTEXT_FORMAT_V1 THEN "EINVAL"
  ELSE IF ctx.flags \ FS_POLICY_FLAGS_VALID # {} THEN "EINVAL"
  ELSE "0"

\* a test that never sees the installed info
never_has_encryption_key(i) == FALSE

\* fscrypt_has_encryption_key(inode) (line 559)
fscrypt_has_encryption_key(i) == i_crypt_info[i] # NULL

\* fscrypt_get_encryption_info() up to the key lookup (lines 559-617): the
\* early returns, the candidate info, the mode, the key buffer.  fail names
\* the allocation that fails, if one does.
GetStart(t, i) ==
  /\ pc[t] = "idle"
  /\ LET l0 == [IdleLocals EXCEPT !.op = "get", !.inode = i] IN
     IF fscrypt_has_encryption_key(i)
     THEN /\ Goto(t, "done")
          /\ SetLoc(t, l0)
          /\ UNCHANGED << info, tfms, freedSecret, warned >>
     ELSE \E fail \in {"none", "initialize", "crypt_info", "raw_key"} :
          LET ctx == get_context(i)
              valid == validate_context(ctx)
              ci == NewInfo
              sel == select_encryption_mode(ctx.contents_encryption_mode,
                                            ctx.filenames_encryption_mode,
                                            policy[i])
              info1 == [info EXCEPT ![ci] =
                          [FreeInfo EXCEPT !.live = TRUE,
                             !.ci_flags = ctx.flags,
                             !.ci_data_mode = ctx.contents_encryption_mode,
                             !.ci_filename_mode = ctx.filenames_encryption_mode,
                             !.ci_master_key_descriptor = ctx.master_key_descriptor,
                             !.ci_nonce = ctx.nonce,
                             !.ci_mode = sel.mode]]
              l1 == [l0 EXCEPT !.steps = {"get_context"}]
              l2 == [l1 EXCEPT !.crypt_info = ci, !.mode = sel.mode]
          IN
          IF fail = "initialize"
          THEN /\ Goto(t, "done")
               /\ SetLoc(t, [l0 EXCEPT !.res = "ENOMEM"])
               /\ UNCHANGED << info, tfms, freedSecret, warned >>
          ELSE IF valid # "0"
          THEN /\ fail = "none"
               /\ Goto(t, "done")
               /\ SetLoc(t, [l1 EXCEPT !.res = valid])
               /\ UNCHANGED << info, tfms, freedSecret, warned >>
          ELSE IF fail = "crypt_info"
          THEN /\ Goto(t, "done")
               /\ SetLoc(t, [l1 EXCEPT !.res = "ENOMEM"])
               /\ UNCHANGED << info, tfms, freedSecret, warned >>
          ELSE /\ warned' = IF sel.warn THEN warned \cup {"not_encryptable"}
                            ELSE warned
               /\ IF sel.err # "0"
                  THEN /\ fail = "none"
                       /\ Out(t, [l2 EXCEPT !.res = sel.err], info1, tfms, {})
                  ELSE IF fail = "raw_key"
                  THEN Out(t, [l2 EXCEPT !.res = "ENOMEM"], info1, tfms, {})
                  ELSE /\ Goto(t, IF ctx.sdp # "none" THEN "sdp"
                                  ELSE "request_key")
                       /\ SetLoc(t, [l2 EXCEPT !.raw_key = Uninit,
                                               !.prefix = FS_KEY_DESC_PREFIX])
                       /\ info' = info1
                       /\ UNCHANGED << tfms, freedSecret >>
  /\ UNCHANGED << leakedTfms, lockedOps, policy, i_crypt_info, mk, fscrypt_master_keys,
                  fscrypt_master_keys_lock, essiv_hash_tfm, keyring, keyOps >>

\* the file key the classification-aware provider hands back (derive_fek)
SdpKey(i, n) == [kind |-> "sdp", kid |-> "S", nonce |-> "-", len |-> n]

\* lines 619-649 (CONFIG_FSCRYPT_SDP): the sdp info, and for a classified
\* file the key from derive_fek() instead of find_and_derive_key()
Sdp(t) ==
  /\ pc[t] = "sdp"
  /\ LET l == loc[t]
         ci == l.crypt_info
         info1 == [info EXCEPT ![ci].ci_sdp_info = TRUE]
     IN \E fail \in {"none", "alloc_sdp_info", "update_sdp_info", "derive_fek"} :
        IF fail = "alloc_sdp_info"
        THEN /\ Out(t, [l EXCEPT !.res = "ENOMEM"], info, tfms, {})
             /\ UNCHANGED warned
        ELSE IF fail = "update_sdp_info"
        THEN /\ Out(t, [l EXCEPT !.res = "EIO"], info1, tfms, {})
             /\ UNCHANGED warned
        ELSE IF policy[l.inode].sdp # "classified"
        THEN /\ fail = "none"
             /\ Goto(t, "request_key")
             /\ SetLoc(t, l)
             /\ info' = info1
             /\ UNCHANGED << tfms, freedSecret, warned >>
        ELSE IF fail = "derive_fek"
        THEN /\ Out(t, [l EXCEPT !.res = "EIO"], info1, tfms, {})
             /\ UNCHANGED warned
        ELSE Setup(t, [l EXCEPT !.raw_key = SdpKey(l.inode, ModeOf(t).keysize),
                                !.steps = @ \cup {"derive"}], info1)
  /\ UNCHANGED << leakedTfms, lockedOps, policy, i_crypt_info, mk, fscrypt_master_keys,
                  fscrypt_master_keys_lock, essiv_hash_tfm, keyring, keyOps >>

(* ------------------------- find_and_derive_key ------------------------ *)
\* a retry after any failure, whether or not there is a second prefix
tries_key_prefix_on_error(err, prefix, key_prefix) ==
  err # "0" /\ prefix = FS_KEY_DESC_PREFIX

\* the test of line 228: the first lookup returned -ENOKEY and the
\* filesystem has a key prefix of its own
tries_key_prefix(err, prefix, key_prefix) ==
  err = "ENOKEY" /\ prefix = FS_KEY_DESC_PREFIX /\ key_prefix

\* What find_and_derive_key() does with the result of one
\* find_and_lock_process_key() that found no usable key (lines 228-234): the
\* filesystem's own prefix is tried after -ENOKEY under the first prefix
KeyResult(t, l, err) ==
  IF tries_key_prefix(err, l.prefix, policy[l.inode].key_prefix)
  THEN /\ Goto(t, "request_key")
       /\ SetLoc(t, [l EXCEPT !.prefix = FS_KEY_PREFIX])
       /\ UNCHANGED << info, tfms, freedSecret >>
  ELSE Out(t, [l EXCEPT !.res = err], info, tfms, {})

\* request_key() of find_and_lock_process_key() (lines 98-106)
request_key(k, fail) ==
  IF fail # "none" THEN "ENOMEM"
  ELSE IF keyring[k].state = "absent" THEN "ENOKEY"
  ELSE IF keyring[k].state = "revoked" THEN "EKEYREVOKED"
  ELSE "0"

RequestKey(t) ==
  /\ pc[t] = "request_key"
  /\ LET l == loc[t]
         k == << l.prefix, info[l.crypt_info].ci_master_key_descriptor >>
     IN \E fail \in {"none", "kasprintf"} :
        LET r == request_key(k, fail)
        IN /\ IF r = "0"
              THEN /\ Goto(t, "lock_key")
                   /\ SetLoc(t, [l EXCEPT !.key = k])
                   /\ UNCHANGED << info, tfms, freedSecret >>
              ELSE KeyResult(t, [l EXCEPT !.lookups =
                                    Append(@, [prefix |-> l.prefix, r |-> r])], r)
  /\ UNCHANGED << leakedTfms, lockedOps, policy, i_crypt_info, mk, fscrypt_master_keys,
                  fscrypt_master_keys_lock, essiv_hash_tfm, keyring,
                  keyOps, warned >>

\* the validation of the payload under the key's semaphore (lines 108-129)
payload_valid(key, min_keysize) ==
  /\ key.state = "live"
  /\ key.payload.datalen_ok
  /\ key.payload.size >= 1
  /\ key.payload.size <= FS_MAX_KEY_SIZE
  /\ key.payload.size >= min_keysize

\* a derivation that tests the inline mode before DIRECT_KEY
derive_inline_first(flags, mode, contents_mode, filenames_mode, payload, nonce, fail) ==
  IF mode.inline_encryption
  THEN [err |-> "0", key |-> RawBytes(payload.kid, mode.keysize)]
  ELSE IF HasDirectKey(flags)
  THEN IF mode.ivsize < IV_NONCE_END
       THEN [err |-> "EINVAL", key |-> Uninit]
       ELSE IF contents_mode # filenames_mode
       THEN [err |-> "EINVAL", key |-> Uninit]
       ELSE [err |-> "0", key |-> RawBytes(payload.kid, mode.keysize)]
  ELSE IF fail # "none"
  THEN [err |-> "ENOMEM", key |-> Uninit]
  ELSE [err |-> "0", key |-> derive_key_aes(payload.kid, nonce, mode.keysize)]

\* lines 236-257 of find_and_derive_key(): the error, or the key written to
\* derived_key
derive(flags, mode, contents_mode, filenames_mode, payload, nonce, fail) ==
  IF HasDirectKey(flags)
  THEN IF mode.ivsize < IV_NONCE_END
       THEN [err |-> "EINVAL", key |-> Uninit]
       ELSE IF contents_mode # filenames_mode
       THEN [err |-> "EINVAL", key |-> Uninit]
       ELSE [err |-> "0", key |-> RawBytes(payload.kid, mode.keysize)]
  ELSE IF mode.inline_encryption
  THEN [err |-> "0", key |-> RawBytes(payload.kid, mode.keysize)]
  ELSE IF fail # "none"
  THEN [err |-> "ENOMEM", key |-> Uninit]
  ELSE [err |-> "0", key |-> derive_key_aes(payload.kid, nonce, mode.keysize)]

\* a path that returns without up_read()
keep_read_lock(locked) == locked

\* down_read(&key->sem) (line 108), up_read(&key->sem) (lines 135, 258) and
\* key_put(key) (lines 136, 259)
down_read(locked) == TRUE
up_read(locked) == FALSE
key_put(key) == NoKey

\* find_and_lock_process_key() from down_read(&key->sem) on (lines 108-137),
\* and with a valid payload the rest of find_and_derive_key(): the key is
\* derived under the semaphore, then up_read() and key_put() (lines 236-260),
\* and on success the caller goes on to set up the transform
LockKey(t) ==
  /\ pc[t] = "lock_key"
  /\ LET l == loc[t]
         key == keyring[l.key]
         ci == info[l.crypt_info]
     IN IF ~payload_valid(key, ModeOf(t).keysize)
        THEN /\ KeyResult(t, [l EXCEPT !.key = key_put(@),
                                 !.key_locked = up_read(down_read(@)),
                                 !.lookups = Append(@, [prefix |-> l.prefix,
                                                        r |-> "ENOKEY"])],
                          "ENOKEY")
             /\ UNCHANGED warned
        ELSE \E fail \in {"none", "derive_key_aes"} :
             LET d == derive(ci.ci_flags, ModeOf(t), ci.ci_data_mode,
                             ci.ci_filename_mode, key.payload, ci.ci_nonce, fail)
                 l1 == [l EXCEPT !.raw_key = d.key, !.key = key_put(@),
                                 !.key_locked = up_read(down_read(@)),
                                 !.res = d.err,
                                 !.lookups = Append(@, [prefix |-> l.prefix,
                                                        r |-> "0"]),
                                 !.steps = @ \cup {"derive"}]
             IN IF d.err = "0"
                THEN fail = "none" /\ Setup(t, l1, info)
                ELSE /\ fail = "none" \/ d.err = "ENOMEM"
                     /\ Out(t, l1, info, tfms, {})
                     /\ UNCHANGED warned
  /\ UNCHANGED << leakedTfms, lockedOps, policy, i_crypt_info, mk, fscrypt_master_keys,
                  fscrypt_master_keys_lock, essiv_hash_tfm, keyring, keyOps >>

(* ----------------------- fscrypt_get_master_key ----------------------- *)
\* the bucket of a descriptor: the tests of the loop do not depend on it
hash_bucket(descriptor) == 0

\* the result of a comparison read the other way round
crypto_memeq(a, b, n) == [b EXCEPT !.len = IF n < @ THEN n ELSE @]
                          = [a EXCEPT !.len = IF n < @ THEN n ELSE @]

\* crypto_memneq(a, b, n): whether the first n bytes differ
FirstBytes(b, n) == [b EXCEPT !.len = IF n < @ THEN n ELSE @]
crypto_memneq(a, b, n) == FirstBytes(a, n) # FirstBytes(b, n)

\* a loop that does not compare the raw keys
mk_matches_without_key(m, descriptor, mode, raw_key) ==
  /\ mk[m].mk_descriptor = descriptor
  /\ mk[m].mk_mode = mode

\* the test of the loop of find_or_insert_master_key() (lines 356-362)
mk_matches(m, descriptor, mode, raw_key) ==
  /\ mk[m].mk_descriptor = descriptor
  /\ mk[m].mk_mode = mode
  /\ ~crypto_memneq(raw_key, mk[m].mk_raw, available_modes[mode].keysize)

\* hash_for_each_possible(): the first entry of the bucket that matches, or NULL
mk_lookup(descriptor, mode, raw_key) ==
  LET hits == SelectSeq(fscrypt_master_keys,
                LAMBDA m : /\ hash_bucket(mk[m].mk_descriptor) = hash_bucket(descriptor)
                           /\ mk_matches(m, descriptor, mode, raw_key))
  IN IF hits = << >> THEN NULL ELSE Head(hits)

\* a hit that takes no reference
no_refcount_inc(n) == n

\* refcount_inc(&mk->mk_refcount) (line 364)
refcount_inc(n) == n + 1

\* hash_add(): the new entry goes to the head of its bucket
hash_add(m) == << m >> \o fscrypt_master_keys

\* the candidate of fscrypt_get_master_key() before its transform is set
\* (lines 389-393): zeroed by kzalloc(), count 1, the mode
NewCandidate(mode) ==
  [FreeMk EXCEPT !.live = TRUE, !.mk_refcount = 1, !.mk_mode = mode]

\* an error path that returns without freeing the candidate
keep_master_key(mks, m) == mks

\* free_master_key(mk) at err_free_mk (lines 405-406): the entries without m
free_master_key(mks, m) == [mks EXCEPT ![m] = FreeMk]

\* spin_lock(&fscrypt_master_keys_lock) of find_or_insert_master_key()
MkFindLock(t) ==
  /\ pc[t] = "mk_find_lock"
  /\ fscrypt_master_keys_lock = NULL
  /\ fscrypt_master_keys_lock' = t
  /\ Goto(t, "mk_find")
  /\ UNCHANGED << leakedTfms, lockedOps, policy, i_crypt_info, info, mk, fscrypt_master_keys,
                  essiv_hash_tfm, tfms, keyring, keyOps, loc, freedSecret,
                  warned >>

\* find_or_insert_master_key() under the lock, and what follows it outside:
\* on a hit the count goes up, the candidate is freed and the info takes the
\* entry; on a miss the candidate is inserted, or (first call, no candidate)
\* fscrypt_get_master_key() builds one (lines 389-402) and calls again
MkFind(t) ==
  /\ pc[t] = "mk_find"
  /\ LET l == loc[t]
         ci == l.crypt_info
         mode == ModeOf(t)
         hit == mk_lookup(info[ci].ci_master_key_descriptor, l.mode, l.raw_key)
         take(m) == [info EXCEPT ![ci].ci_master_key = m,
                                 ![ci].ci_ctfm = mk[m].mk_ctfm]
     IN IF hit # NULL
        THEN /\ mk' = IF l.to_insert = NULL
                      THEN [mk EXCEPT ![hit].mk_refcount = refcount_inc(@)]
                      ELSE [mk EXCEPT ![hit].mk_refcount = refcount_inc(@),
                                      ![l.to_insert] = FreeMk]
             /\ tfms' = IF l.to_insert = NULL THEN tfms
                        ELSE TfmsWithout({mk[l.to_insert].mk_ctfm})
             /\ freedSecret' = freedSecret \cup
                  (IF l.to_insert = NULL THEN {}
                   ELSE Leak("mk_raw", kzfree_mk(mk[l.to_insert].mk_raw)))
             /\ info' = take(hit)
             /\ warned' = warned \cup EssivWarnings(mode, info[ci].ci_flags)
             /\ Goto(t, AfterCtfm(mode))
             /\ SetLoc(t, [l EXCEPT !.to_insert = NULL])
             /\ UNCHANGED fscrypt_master_keys
        ELSE IF l.to_insert # NULL
        THEN /\ fscrypt_master_keys' = hash_add(l.to_insert)
             /\ info' = take(l.to_insert)
             /\ warned' = warned \cup EssivWarnings(mode, info[ci].ci_flags)
             /\ Goto(t, AfterCtfm(mode))
             /\ SetLoc(t, [l EXCEPT !.to_insert = NULL])
             /\ UNCHANGED << mk, tfms, freedSecret >>
        ELSE \E fail \in {"none", "kzalloc", "alloc", "setkey"} :
             IF fail = "kzalloc"
             THEN /\ Out(t, [l EXCEPT !.res = "ENOMEM"], info, tfms, {})
                  /\ UNCHANGED << mk, warned, fscrypt_master_keys >>
             ELSE IF fail # "none"
             THEN /\ mk' = free_master_key(
                             [mk EXCEPT ![NewMk] = NewCandidate(l.mode)], NewMk)
                  /\ Out(t, [l EXCEPT !.res = IF fail = "setkey" THEN "EINVAL"
                                              ELSE "ENOMEM"],
                         info, tfms,
                         Leak("mk_raw", kzfree_mk(NewCandidate(l.mode).mk_raw)))
                  /\ UNCHANGED << warned, fscrypt_master_keys >>
             ELSE LET m == NewMk IN
                  /\ mk' = [mk EXCEPT ![m] =
                       [live |-> TRUE, mk_refcount |-> 1, mk_mode |-> l.mode,
                        mk_ctfm |-> Tfm("mk", m),
                        mk_descriptor |-> info[ci].ci_master_key_descriptor,
                        mk_raw |-> FirstBytes(l.raw_key, mode.keysize)]]
                  /\ tfms' = tfms \cup {[h |-> Tfm("mk", m), key |-> l.raw_key]}
                  /\ Goto(t, "mk_find_lock")
                  /\ SetLoc(t, [l EXCEPT !.to_insert = m,
                                         !.steps = @ \cup {"cipher_alloc"}])
                  /\ UNCHANGED << freedSecret, info, warned,
                                  fscrypt_master_keys >>
  /\ lockedOps' = lockedOps \cup
       UnderLock(after_spin_unlock(fscrypt_master_keys_lock,
                                   spin_unlock(fscrypt_master_keys_lock)),
                 t, LET l == loc[t]
                        hit == mk_lookup(info[l.crypt_info].ci_master_key_descriptor,
                                         l.mode, l.raw_key)
                    IN IF hit # NULL /\ l.to_insert # NULL
                       THEN {"free_master_key"}
                       ELSE IF hit = NULL /\ l.to_insert = NULL
                       THEN {"allocate_skcipher_for_mode"}
                       ELSE {})
  /\ fscrypt_master_keys_lock' = spin_unlock(fscrypt_master_keys_lock)
  /\ UNCHANGED << leakedTfms, policy, i_crypt_info, essiv_hash_tfm, keyring, keyOps >>

(* -------------------------------- ESSIV ------------------------------- *)
\* the rest of init_essiv_generator() once the hash transform is known:
\* the digest of the key is the salt, the salt keys the ESSIV cipher, the
\* salt is wiped (lines 438, 464-470)
EssivKeyed(t, l, info1, hash_tfm, fail, tfms1) ==
  LET ci == l.crypt_info
      salt == IF fail = "digest" THEN Uninit
              ELSE sha256(l.raw_key, ModeOf(t).keysize)
      l1 == [l EXCEPT !.hash_used = hash_tfm, !.shash = NoTfm]
      leaks == Leak("salt", memzero_salt(salt))
  IN IF fail \in {"digest", "setkey"}
     THEN Out(t, [l1 EXCEPT !.res = "EINVAL"], info1, tfms1, leaks)
     ELSE /\ tfms' = {x \in tfms1 : x.h # Tfm("essiv", ci)}
                       \cup {[h |-> Tfm("essiv", ci), key |-> salt]}
          /\ info' = info1
          /\ freedSecret' = freedSecret \cup leaks
          /\ Goto(t, "install")
          /\ SetLoc(t, l1)

\* init_essiv_generator() up to the cmpxchg() of derive_essiv_salt()
\* (lines 449-455, 413-425): the ESSIV cipher is allocated and put on the
\* info, the global hash transform is read, and allocated when it is NULL
Essiv(t) ==
  /\ pc[t] = "essiv"
  /\ LET l == loc[t]
         ci == l.crypt_info
         withCipher == tfms \cup {[h |-> Tfm("essiv", ci), key |-> Zeroed]}
         info1 == [info EXCEPT ![ci].ci_essiv_tfm = Tfm("essiv", ci)]
     IN \E fail \in {"none", "cipher", "shash", "digest", "setkey"} :
        /\ IF fail = "cipher"
           THEN Out(t, [l EXCEPT !.res = "ENOMEM"], info, tfms, {})
           ELSE IF essiv_hash_tfm # NoTfm
           THEN fail # "shash"
                /\ EssivKeyed(t, l, info1, essiv_hash_tfm, fail, withCipher)
           ELSE IF fail = "shash"
           THEN Out(t, [l EXCEPT !.res = "ENOMEM"], info1, withCipher,
                    Leak("salt", memzero_salt(Uninit)))
           ELSE /\ fail = "none"
                /\ tfms' = withCipher
                             \cup {[h |-> Tfm("shash", t), key |-> Zeroed]}
                /\ info' = info1
                /\ Goto(t, "essiv_cmpxchg")
                /\ SetLoc(t, [l EXCEPT !.shash = Tfm("shash", t)])
                /\ UNCHANGED freedSecret
  /\ UNCHANGED << leakedTfms, lockedOps, policy, i_crypt_info, mk, fscrypt_master_keys,
                  fscrypt_master_keys_lock, essiv_hash_tfm, keyring, keyOps,
                  warned >>

\* a plain store to the global slot
plain_store(cur, old, new) == new

\* cmpxchg(ptr, old, new) (line 426): what ptr holds afterwards
cmpxchg(cur, old, new) == IF cur = old THEN new ELSE cur

\* cmpxchg(&essiv_hash_tfm, NULL, tfm) (lines 426-430): the loser frees the
\* transform it allocated and uses the published one
EssivCmpxchg(t) ==
  /\ pc[t] = "essiv_cmpxchg"
  /\ LET l == loc[t]
         prev_tfm == essiv_hash_tfm
     IN \E fail \in {"none", "digest", "setkey"} :
        /\ IF prev_tfm = NoTfm
           THEN /\ essiv_hash_tfm' = cmpxchg(essiv_hash_tfm, NoTfm, l.shash)
                /\ EssivKeyed(t, l, info, l.shash, fail, tfms)
           ELSE /\ essiv_hash_tfm' = cmpxchg(essiv_hash_tfm, NoTfm, l.shash)
                /\ EssivKeyed(t, l, info, prev_tfm, fail, TfmsWithout({l.shash}))
  /\ UNCHANGED << leakedTfms, lockedOps, policy, i_crypt_info, mk, fscrypt_master_keys,
                  fscrypt_master_keys_lock, keyring, keyOps, warned >>

(* ------------------------------- install ------------------------------ *)
\* a plain store in place of the compare-and-exchange
store_release(cur, old, new) == new

\* cmpxchg_release(ptr, old, new): what ptr holds afterwards
cmpxchg_release(cur, old, new) == IF cur = old THEN new ELSE cur

\* cmpxchg_release(&inode->i_crypt_info, NULL, crypt_info) and out:
\* (lines 668-679): the winner keeps its info, the loser puts it
Install(t) ==
  /\ pc[t] = "install"
  /\ LET l == loc[t]
         i == l.inode
         prev == i_crypt_info[i]
     IN /\ i_crypt_info' = [i_crypt_info EXCEPT ![i] =
                             cmpxchg_release(prev, NULL, l.crypt_info)]
        /\ IF prev = NULL
           THEN Out(t, [l EXCEPT !.crypt_info = NULL,
                                 !.steps = @ \cup {"installed"}],
                    [info EXCEPT ![l.crypt_info].inode = i], tfms, {})
           ELSE Out(t, [l EXCEPT !.steps = @ \cup {"lost"}], info, tfms, {})
  /\ UNCHANGED << leakedTfms, lockedOps, policy, mk, fscrypt_master_keys,
                  fscrypt_master_keys_lock, essiv_hash_tfm, keyring, keyOps,
                  warned >>

\* the caller reads the result of fscrypt_get_encryption_info()
Return(t) ==
  /\ pc[t] = "done"
  /\ Goto(t, "idle")
  /\ SetLoc(t, IdleLocals)
  /\ UNCHANGED << leakedTfms, lockedOps, policy, i_crypt_info, info, mk, fscrypt_master_keys,
                  fscrypt_master_keys_lock, essiv_hash_tfm, tfms, keyring,
                  keyOps, freedSecret, warned >>

(* --------------------- fscrypt_put_encryption_info -------------------- *)
\* put_crypt_info(inode->i_crypt_info) (line 694)
PutStart(t, i) ==
  /\ pc[t] = "idle"
  /\ PutCryptInfo(t, [IdleLocals EXCEPT !.op = "put", !.inode = i,
                                        !.crypt_info = i_crypt_info[i]],
                  info, tfms, {})
  /\ UNCHANGED << leakedTfms, lockedOps, policy, i_crypt_info, mk, fscrypt_master_keys,
                  fscrypt_master_keys_lock, essiv_hash_tfm, keyring, keyOps,
                  warned >>

\* a release that leaves the slot as it is
keep_crypt_info(slot) == slot

\* inode->i_crypt_info = NULL (line 695): what the slot holds afterwards
clear_crypt_info(slot) == NULL

\* inode->i_crypt_info = NULL (line 695)
PutClear(t) ==
  /\ pc[t] = "put_clear"
  /\ i_crypt_info' = [i_crypt_info EXCEPT ![loc[t].inode] = clear_crypt_info(@)]
  /\ Goto(t, "idle")
  /\ SetLoc(t, IdleLocals)
  /\ UNCHANGED << leakedTfms, lockedOps, policy, info, mk, fscrypt_master_keys,
                  fscrypt_master_keys_lock, essiv_hash_tfm, tfms, keyring,
                  keyOps, freedSecret, warned >>

(* ----------------------------- the keyring ---------------------------- *)
\* a key a thread holds a reference to (between request_key() and key_put())
Referenced(k) == \E t \in Threads : loc[t].key = k

\* whether a run looks anything up in the keyring: a classified file gets
\* its key from the provider
ReadsKeyring == \E i \in Inodes : policy[i].sdp # "classified"

\* the keys user space adds
KeyAdds ==
  ({FS_KEY_DESC_PREFIX} \X {"D1"} \X Payloads)
  \cup {<< FS_KEY_PREFIX, "D1", [datalen_ok |-> TRUE, size |-> 64, kid |-> "K1"] >>}

\* add_key(): a new key, or the update of a live one under its semaphore
KeyAdd(k, p) ==
  /\ keyOps < MaxKeyOps
  /\ ReadsKeyring
  /\ keyring[k].state \in {"absent", "live"}
  /\ keyring[k].payload # p
  /\ keyring' = [keyring EXCEPT ![k] = [state |-> "live", payload |-> p]]
  /\ keyOps' = keyOps + 1
  /\ UNCHANGED << leakedTfms, lockedOps, policy, i_crypt_info, info, mk, fscrypt_master_keys,
                  fscrypt_master_keys_lock, essiv_hash_tfm, tfms, pc, loc,
                  freedSecret, warned >>

\* key_revoke(): takes the key's semaphore for writing
KeyRevoke(k) ==
  /\ keyOps < MaxKeyOps
  /\ ReadsKeyring
  /\ keyring[k].state = "live"
  /\ keyring' = [keyring EXCEPT ![k] = [state |-> "revoked", payload |-> NoPayload]]
  /\ keyOps' = keyOps + 1
  /\ UNCHANGED << leakedTfms, lockedOps, policy, i_crypt_info, info, mk, fscrypt_master_keys,
                  fscrypt_master_keys_lock, essiv_hash_tfm, tfms, pc, loc,
                  freedSecret, warned >>

\* the key leaves the keyring once nothing holds it
KeyUnlink(k) ==
  /\ keyOps < MaxKeyOps
  /\ ReadsKeyring
  /\ keyring[k].state # "absent"
  /\ ~Referenced(k)
  /\ keyring' = [keyring EXCEPT ![k] = AbsentKey]
  /\ keyOps' = keyOps + 1
  /\ UNCHANGED << leakedTfms, lockedOps, policy, i_crypt_info, info, mk, fscrypt_master_keys,
                  fscrypt_master_keys_lock, essiv_hash_tfm, tfms, pc, loc,
                  freedSecret, warned >>

(* --------------------------- the specification ------------------------ *)
Next ==
  \/ \E t \in Threads, i \in Inodes : ~Evicting(i) /\ GetStart(t, i)
  \/ \E t \in Threads : Sdp(t)
  \/ \E t \in Threads : RequestKey(t)
  \/ \E t \in Threads : LockKey(t)
  \/ \E t \in Threads : MkFindLock(t)
  \/ \E t \in Threads : MkFind(t)
  \/ \E t \in Threads : Essiv(t)
  \/ \E t \in Threads : EssivCmpxchg(t)
  \/ \E t \in Threads : Install(t)
  \/ \E t \in Threads : Return(t)
  \/ \E t \in Threads : PutMk(t)
  \/ \E t \in Threads : PutMkLock(t)
  \/ \E t \in Threads : PutMkLocked(t)
  \/ \E t \in Threads, i \in Inodes : ~InUse(i) /\ PutStart(t, i)
  \/ \E t \in Threads : PutClear(t)
  \/ \E x \in KeyAdds : KeyAdd(<< x[1], x[2] >>, x[3])
  \/ \E k \in KeySlots : KeyRevoke(k)
  \/ \E k \in KeySlots : KeyUnlink(k)

Spec == Init /\ [][Next]_vars

(* ============================ properties ============================== *)
\* the infos that are installed, and the threads resolving an inode
Installed == {i_crypt_info[i] : i \in Inodes} \ {NULL}
InFlight(t) == loc[t].op = "get" /\ pc[t] \notin {"idle", "done"}
Returned(t) == loc[t].op = "get" /\ pc[t] = "done"
TableEntries == {fscrypt_master_keys[n] : n \in DOMAIN fscrypt_master_keys}

(* ---- C1 ---- *)
\* C1: an inode's info slot goes from absent to non-absent only by the
\* compare-and-install of a thread resolving that inode, which installs its
\* own candidate; a non-absent slot is never overwritten by a resolve (it
\* only becomes absent again, by the release of the inode); and a candidate
\* that lost is never in a slot.
C1_SlotStep ==
  \A i \in Inodes :
    /\ (i_crypt_info[i] = NULL /\ i_crypt_info'[i] # NULL)
         => \E t \in Threads : /\ pc[t] = "install"
                               /\ loc[t].inode = i
                               /\ loc[t].crypt_info = i_crypt_info'[i]
                               /\ "installed" \in loc'[t].steps
    /\ (i_crypt_info[i] # NULL /\ i_crypt_info'[i] # i_crypt_info[i])
         => /\ i_crypt_info'[i] = NULL
            /\ \E t \in Threads : /\ pc[t] = "put_clear"
                                  /\ loc[t].op = "put"
                                  /\ loc[t].inode = i
C1_LoserNotInstalled ==
  \A t \in Threads, i \in Inodes :
    (InFlight(t) /\ loc[t].crypt_info # NULL /\ ~Evicting(i))
      => i_crypt_info[i] # loc[t].crypt_info
C1_InstalledOnce == [][C1_SlotStep]_vars /\ []C1_LoserNotInstalled

\* C1 witness: two threads resolved the same inode, each with a candidate of
\* its own; one installed, the other lost and returned
C1_Witness ==
  \E t, u \in Threads :
    /\ t # u
    /\ Returned(t) /\ Returned(u)
    /\ loc[t].inode = loc[u].inode
    /\ "installed" \in loc[t].steps
    /\ "lost" \in loc[u].steps
    /\ i_crypt_info[loc[t].inode] # NULL

(* ---- C2 ---- *)
\* the infos, installed or candidate, that hold a reference to entry m
Holders(m) == {c \in InfoIds : info[c].live /\ info[c].ci_master_key = m}
Quiescent == \A t \in Threads : pc[t] \in {"idle", "done"}

\* C2: the reference count of every entry of the master key table is the
\* number of live infos (installed, or candidates of calls in progress) that
\* reference it; with no call in progress it is the number of installed
\* infos that reference it.
C2_RefcountIsHolders ==
  \A m \in TableEntries :
    /\ mk[m].mk_refcount = Cardinality(Holders(m))
    /\ Quiescent => mk[m].mk_refcount =
                       Cardinality({c \in Installed : info[c].ci_master_key = m})

\* C2 witness: no call in progress and an entry shared by two installed infos
C2_Witness ==
  /\ Quiescent
  /\ \E m \in TableEntries :
       /\ mk[m].mk_refcount = 2
       /\ Cardinality({c \in Installed : info[c].ci_master_key = m}) = 2

(* ---- C3 ---- *)
\* the (descriptor, mode, raw key) of an entry
Triple(m) == << mk[m].mk_descriptor, mk[m].mk_mode, mk[m].mk_raw >>

\* C3: no two entries of the table have the same (descriptor, mode, raw
\* key), and every live info with a master key references an entry of the
\* table and uses that entry's transform: infos that resolve to one triple
\* share one entry and one transform.
C3_NoDuplicateEntries ==
  /\ \A a, b \in DOMAIN fscrypt_master_keys :
       a # b => Triple(fscrypt_master_keys[a]) # Triple(fscrypt_master_keys[b])
  /\ \A c \in InfoIds :
       (info[c].live /\ info[c].ci_master_key # NULL)
         => /\ info[c].ci_master_key \in TableEntries
            /\ info[c].ci_ctfm = mk[info[c].ci_master_key].mk_ctfm
  /\ \A c, d \in InfoIds :
       ( /\ info[c].live /\ info[c].ci_master_key # NULL
         /\ info[d].live /\ info[d].ci_master_key # NULL
         /\ Triple(info[c].ci_master_key) = Triple(info[d].ci_master_key) )
         => /\ info[c].ci_master_key = info[d].ci_master_key
            /\ info[c].ci_ctfm = info[d].ci_ctfm

\* C3 witness: both threads missed and built a candidate for the same
\* triple; one inserted its candidate and installed, the other still holds
\* its own candidate and is about to look the table up again
C3_Witness ==
  \E t \in Threads :
    /\ pc[t] = "mk_find_lock"
    /\ loc[t].to_insert # NULL
    /\ \E m \in TableEntries :
         /\ Triple(m) = Triple(loc[t].to_insert)
         /\ \E c \in Installed : info[c].ci_master_key = m
                                 /\ info[c].inode # loc[t].inode

(* ---- C4 ---- *)
\* the threads whose candidate info has been given its master key
HasEntry(t) ==
  /\ InFlight(t)
  /\ pc[t] \in {"essiv", "essiv_cmpxchg", "install"}
  /\ loc[t].crypt_info # NULL
  /\ info[loc[t].crypt_info].ci_master_key # NULL

\* C4: the entry get_or_create gave a caller has the caller's descriptor,
\* mode and raw key bytes; so two callers with the same descriptor and mode
\* and different raw key bytes hold different entries and transforms.
C4_EntryIsCallers ==
  /\ \A t \in Threads :
       HasEntry(t)
         => LET c == info[loc[t].crypt_info] IN
            Triple(c.ci_master_key)
              = << c.ci_master_key_descriptor, loc[t].mode,
                   FirstBytes(loc[t].raw_key, ModeOf(t).keysize) >>
  /\ \A t, u \in Threads :
       ( /\ HasEntry(t) /\ HasEntry(u)
         /\ FirstBytes(loc[t].raw_key, ModeOf(t).keysize)
              # FirstBytes(loc[u].raw_key, ModeOf(u).keysize) )
         => /\ info[loc[t].crypt_info].ci_master_key
                # info[loc[u].crypt_info].ci_master_key
            /\ info[loc[t].crypt_info].ci_ctfm
                # info[loc[u].crypt_info].ci_ctfm

\* C4 witness: two callers with the same descriptor and mode and different
\* raw key bytes have both been given an entry
C4_Witness ==
  \E t, u \in Threads :
    /\ HasEntry(t) /\ HasEntry(u)
    /\ info[loc[t].crypt_info].ci_master_key_descriptor
         = info[loc[u].crypt_info].ci_master_key_descriptor
    /\ loc[t].mode = loc[u].mode
    /\ FirstBytes(loc[t].raw_key, ModeOf(t).keysize)
         # FirstBytes(loc[u].raw_key, ModeOf(u).keysize)
    /\ info[loc[t].crypt_info].ci_ctfm # info[loc[u].crypt_info].ci_ctfm

(* ---- C5 ---- *)
\* the transforms that are allocated
Handles == {x.h : x \in tfms}

\* what a step that drops a reference to entry m does
C5_ReleaseStep(m) ==
  /\ (mk[m].live /\ m \in TableEntries /\ mk'[m].mk_refcount < mk[m].mk_refcount)
       => IF mk[m].mk_refcount = 1
          THEN /\ ~mk'[m].live
               /\ \A n \in DOMAIN fscrypt_master_keys' :
                    /\ fscrypt_master_keys'[n] # m
                    /\ << mk'[fscrypt_master_keys'[n]].mk_descriptor,
                          mk'[fscrypt_master_keys'[n]].mk_mode,
                          mk'[fscrypt_master_keys'[n]].mk_raw >> # Triple(m)
               /\ mk[m].mk_ctfm \notin Handles'
               /\ mk'[m].mk_raw = Zeroed
               /\ "mk_raw" \notin freedSecret'
          ELSE /\ mk'[m].live
               /\ mk'[m].mk_refcount = mk[m].mk_refcount - 1
               /\ fscrypt_master_keys' = fscrypt_master_keys
               /\ mk[m].mk_ctfm \in Handles'

\* C5: the release of the last info that references an entry takes the
\* entry out of the table (no entry with its triple is left, a lookup
\* misses), frees its transform and zeroes its raw key before the entry is
\* freed; a release that leaves the count above zero leaves the entry in
\* the table with its transform.  Every entry in the table is live and
\* counted at least once.
C5_LastReleaseRemoves ==
  /\ [][\A m \in MkIds : C5_ReleaseStep(m)]_vars
  /\ [](\A m \in TableEntries : mk[m].live /\ mk[m].mk_refcount >= 1)

\* C5 witness: an eviction has just dropped the last reference to an entry:
\* the entry is freed and the table is empty
C5_Witness ==
  \E t \in Threads :
    /\ pc[t] = "put_clear"
    /\ loc[t].op = "put"
    /\ loc[t].mk # NULL
    /\ ~mk[loc[t].mk].live
    /\ fscrypt_master_keys = << >>

(* ---- C6 ---- *)
\* the last key lookup of a call found no usable key
NoKeyFound(t) ==
  /\ loc[t].lookups # << >>
  /\ loc[t].lookups[Len(loc[t].lookups)].r = "ENOKEY"
\* a call found a valid key and nothing failed in it
KeyFound(t) ==
  /\ loc[t].lookups # << >>
  /\ loc[t].lookups[Len(loc[t].lookups)].r = "0"
  /\ loc[t].res = "0"

\* the step in which a resolve that found no usable key returns
C6_ReturnStep(t) ==
  (pc[t] # "done" /\ pc'[t] = "done" /\ loc'[t].op = "get" /\ NoKeyFound(t)')
    => /\ i_crypt_info' = i_crypt_info
       /\ fscrypt_master_keys' = fscrypt_master_keys
       /\ tfms' = tfms
       /\ loc[t].crypt_info # NULL => ~info'[loc[t].crypt_info].live

\* C6: a resolve whose key lookups end with no usable key (absent under
\* every prefix, or a payload that is malformed or too short) returns 0,
\* having derived no key, allocated no cipher and touched no cache entry;
\* its return frees its candidate and leaves every slot as it was, so it
\* installs nothing.  A resolve that finds a valid key and returns 0
\* leaves the inode with an installed info.
C6_NoKeyIsSuccess ==
  /\ [](\A t \in Threads :
          /\ (Returned(t) /\ NoKeyFound(t))
               => /\ loc[t].res = "0"
                  /\ loc[t].steps = {"get_context"}
          /\ (Returned(t) /\ KeyFound(t))
               => /\ i_crypt_info[loc[t].inode] # NULL
                  /\ info[i_crypt_info[loc[t].inode]].live)
  /\ [][\A t \in Threads : C6_ReturnStep(t)]_vars

\* C6 witness: one resolve of an inode returned 0 with no key and left the
\* slot absent; after the key was added, a later resolve of the same inode
\* installed an info
C6_Witness ==
  \E t, u \in Threads :
    /\ Returned(t) /\ NoKeyFound(t) /\ loc[t].res = "0"
    /\ Returned(u) /\ KeyFound(u) /\ "installed" \in loc[u].steps
    /\ loc[t].inode = loc[u].inode
    /\ i_crypt_info[loc[u].inode] # NULL
    /\ keyOps = 1
    /\ \E p \in Prefixes : keyring[<< p, "D1" >>].state = "live"

(* ---- C7 ---- *)
\* the context of the inode has a format or flags the code does not know
InvalidContext(i) ==
  /\ get_context(i).res = "0"
  /\ \/ get_context(i).format # FS_ENCRYPTION_CONTEXT_FORMAT_V1
     \/ get_context(i).flags \ FS_POLICY_FLAGS_VALID # {}

\* C7: a resolve that reads a context with an unknown format or with flag
\* bits outside the valid set returns -EINVAL at once: the call is never at
\* a later step, and it has looked up no key, derived no key, allocated no
\* info or cipher, touched no cache entry.
C7_InvalidPolicyFirst ==
  \A t \in Threads :
    (loc[t].op = "get" /\ pc[t] # "idle" /\ InvalidContext(loc[t].inode)
       /\ "get_context" \in loc[t].steps)
      => /\ pc[t] = "done"
         /\ loc[t].res = "EINVAL"
         /\ loc[t].lookups = << >>
         /\ loc[t].steps = {"get_context"}
         /\ \A c \in InfoIds : ~info[c].live
         /\ tfms = {} /\ fscrypt_master_keys = << >>

\* C7 witness: a resolve of an inode with unknown flag bits has returned,
\* with a valid key in the keyring
C7_Witness ==
  \E t \in Threads :
    /\ Returned(t)
    /\ "get_context" \in loc[t].steps
    /\ get_context(loc[t].inode).flags \ FS_POLICY_FLAGS_VALID # {}
    /\ keyring[<< FS_KEY_DESC_PREFIX, "D1" >>] = ValidKey

(* ---- C8 ---- *)
\* the context of the inode passes the checks made before the key lookup,
\* sets DIRECT_KEY, and its mode cannot carry the nonce in its IV or its two
\* modes differ
InconsistentDirectKey(i) ==
  LET ctx == get_context(i)
      sel == select_encryption_mode(ctx.contents_encryption_mode,
                                    ctx.filenames_encryption_mode, policy[i])
  IN /\ validate_context(ctx) = "0"
     /\ sel.err = "0"
     /\ HasDirectKey(ctx.flags)
     /\ \/ available_modes[sel.mode].ivsize < IV_NONCE_END
        \/ ctx.contents_encryption_mode # ctx.filenames_encryption_mode

\* C8: every resolve that reads a context with DIRECT_KEY and a mode whose
\* IV is too small for the nonce (or with two different modes) is rejected
\* with an error, never returns success and installs nothing, whatever the
\* keyring holds.
C8_DirectKeyAlwaysRejected ==
  \A t \in Threads :
    (Returned(t) /\ "get_context" \in loc[t].steps
       /\ InconsistentDirectKey(loc[t].inode))
      => /\ loc[t].res # "0"
         /\ "installed" \notin loc[t].steps

(* ---- C9 ---- *)
\* the key a transform was keyed with
KeyOf(h) == (CHOOSE x \in tfms : x.h = h).key
\* the installed infos of inodes that are not being evicted
InstalledInfos ==
  {c \in InfoIds : \E i \in Inodes :
     i_crypt_info[i] = c /\ ~Evicting(i) /\ info[c].live}

\* the half both readings share: an installed info whose policy has no
\* DIRECT_KEY has a transform of its own, an ESSIV cipher exactly when its
\* mode needs one, and a mode without ESSIV leaves no ESSIV cipher behind
C9_EssivOnlyWhenNeeded(c) ==
  /\ info[c].ci_ctfm = Tfm("ci", c)
  /\ info[c].ci_ctfm \in Handles
  /\ IF available_modes[info[c].ci_mode].needs_essiv
     THEN info[c].ci_essiv_tfm = Tfm("essiv", c) /\ Tfm("essiv", c) \in Handles
     ELSE info[c].ci_essiv_tfm = NoTfm /\ Tfm("essiv", c) \notin Handles

C10_SecretsZeroed == freedSecret = {}

\* C10 witness: a resolve that derived a key and lost the install race has
\* returned, and so has released its candidate and its key buffer
C10_Witness ==
  \E t \in Threads :
    /\ Returned(t)
    /\ {"derive", "lost"} \subseteq loc[t].steps

(* ---- C11 ---- *)
\* the step in which thread t starts a resolve of an inode that has an info
C11_StartStep(t) ==
  (pc[t] = "idle" /\ pc'[t] # "idle" /\ loc'[t].op = "get"
     /\ i_crypt_info[loc'[t].inode] # NULL)
    => /\ pc'[t] = "done"
       /\ loc'[t].res = "0"
       /\ loc'[t].steps = {}
       /\ loc'[t].lookups = << >>
       /\ UNCHANGED << i_crypt_info, info, mk, fscrypt_master_keys,
                       fscrypt_master_keys_lock, essiv_hash_tfm, tfms,
                       keyring, freedSecret, leakedTfms, lockedOps, warned >>

\* C11: a resolve of an inode that already has an installed info returns 0
\* in one step that changes nothing: the slot, the info objects, the table,
\* the reference counts, the transforms and the global hash transform stay
\* as they were, and the call reads no context and looks up no key.
C11_ResolveIdempotent == [][\A t \in Threads : C11_StartStep(t)]_vars

\* C11 witness: a resolve of an inode with an installed info has returned 0
\* without reading the context, while a cache entry is referenced
C11_Witness ==
  \E t \in Threads :
    /\ Returned(t)
    /\ loc[t].res = "0" /\ loc[t].steps = {}
    /\ i_crypt_info[loc[t].inode] \in InstalledInfos
    /\ info[i_crypt_info[loc[t].inode]].ci_master_key # NULL

(* ---- C12 ---- *)
\* the transforms some live info or live cache entry points to, and the
\* hash transforms a thread or the global slot holds
OwnedHandles ==
  {info[c].ci_ctfm : c \in {x \in InfoIds : info[x].live}}
    \cup {info[c].ci_essiv_tfm : c \in {x \in InfoIds : info[x].live}}
    \cup {mk[m].mk_ctfm : m \in {x \in MkIds : mk[x].live}}
    \cup {loc[t].shash : t \in Threads} \cup {essiv_hash_tfm}

\* C12: the release of an info leaves no transform that was allocated for it
\* without an owner: no ESSIV or cipher transform has been orphaned by a
\* release, and every allocated transform is pointed to by a live info, a
\* live cache entry, a thread's local hash transform or the global slot.
C12_ReleaseFreesAll ==
  /\ leakedTfms = {}
  /\ Handles \subseteq OwnedHandles

(* ---- C13 ---- *)
\* a step that raises the count of an entry that already existed
C13_IncrementStep(m) ==
  (mk[m].live /\ mk'[m].live /\ mk'[m].mk_refcount > mk[m].mk_refcount)
    => /\ mk[m].mk_refcount >= 1
       /\ m \in TableEntries
       /\ mk[m].mk_ctfm \in Handles
       /\ \E t \in Threads : fscrypt_master_keys_lock = t /\ pc[t] = "mk_find"

\* C13: every entry linked in the table is live with a count of at least
\* 1; a lookup raises the count only of a linked, live entry whose count is
\* at least 1, and does so holding the table lock; the count never
\* underflows; and every live info that references an entry references a
\* live entry whose transform is allocated and is the info's transform.
C13_NoDeadEntryReturned ==
  /\ [](\A m \in TableEntries : mk[m].live /\ mk[m].mk_refcount >= 1)
  /\ []("refcount_underflow" \notin warned)
  /\ [](\A c \in InfoIds :
          (info[c].live /\ info[c].ci_master_key # NULL)
            => /\ mk[info[c].ci_master_key].live
               /\ mk[info[c].ci_master_key].mk_refcount >= 1
               /\ info[c].ci_ctfm = mk[info[c].ci_master_key].mk_ctfm
               /\ info[c].ci_ctfm \in Handles)
  /\ [][\A m \in MkIds : C13_IncrementStep(m)]_vars

\* C13 witness: a release that found the count at 1 and went for the lock
\* holds it now and finds the count at 2: a lookup took the entry in between
C13_Witness ==
  \E t \in Threads :
    /\ pc[t] = "put_mk_locked"
    /\ fscrypt_master_keys_lock = t
    /\ mk[loc[t].mk].mk_refcount = 2
    /\ loc[t].mk \in TableEntries

(* ---- C14 ---- *)
\* what the return of a resolve that still holds a candidate c leaves, apart
\* from the transforms of the candidate
C14_Released(t, c) ==
  LET m == info[c].ci_master_key IN
  /\ ~info'[c].live
  /\ \A d \in InfoIds \ {c} : info'[d] = info[d]
  /\ i_crypt_info' = i_crypt_info
  /\ Tfm("ci", c) \notin {x.h : x \in tfms'}
  /\ Tfm("essiv", c) \notin {x.h : x \in tfms'}
  /\ \A n \in MkIds \ {m} : mk'[n] = mk[n]
  /\ IF m = NULL
     THEN fscrypt_master_keys' = fscrypt_master_keys
     ELSE IF mk[m].mk_refcount = 1
     THEN /\ ~mk'[m].live
          /\ fscrypt_master_keys' = SelectSeq(fscrypt_master_keys, LAMBDA x : x # m)
          /\ mk[m].mk_ctfm \notin {x.h : x \in tfms'}
     ELSE /\ mk'[m] = [mk[m] EXCEPT !.mk_refcount = @ - 1]
          /\ fscrypt_master_keys' = fscrypt_master_keys

\* the step in which a resolve returns while it holds a candidate that it
\* did not install
C14_ReturnStep(t) ==
  (loc[t].op = "get" /\ pc[t] # "done" /\ pc'[t] = "done"
     /\ loc[t].crypt_info # NULL /\ "installed" \notin loc'[t].steps)
    => /\ C14_Released(t, loc[t].crypt_info)
       /\ leakedTfms' = leakedTfms

\* C14: a resolve that lost the install race, or failed after its candidate
\* was allocated, returns with the candidate fully released: the info is
\* freed, a cache reference it held is dropped (the entry unlinked and freed
\* when it was the last), its cipher and ESSIV transforms are destroyed and
\* none is left allocated without an owner, and the slots, the other infos
\* and the other cache entries are as they were.
C14_CandidateReleased == [][\A t \in Threads : C14_ReturnStep(t)]_vars

(* ---- C15 ---- *)
\* info c references a shared entry and uses the entry's transform
C15_Shared(c) ==
  /\ info[c].ci_master_key # NULL
  /\ mk[info[c].ci_master_key].live
  /\ info[c].ci_ctfm = mk[info[c].ci_master_key].mk_ctfm
  /\ info[c].ci_ctfm \in Handles
  /\ IsSecret(KeyOf(info[c].ci_ctfm))
  /\ HasDirectKey(info[c].ci_flags)
\* info c owns a keyed transform and references no entry
C15_Private(c) ==
  /\ info[c].ci_master_key = NULL
  /\ info[c].ci_ctfm = Tfm("ci", c)
  /\ info[c].ci_ctfm \in Handles
  /\ IsSecret(KeyOf(info[c].ci_ctfm))
\* info c has an inline mode and holds the raw key, with no transform
C15_Inline(c) ==
  /\ available_modes[info[c].ci_mode].inline_encryption
  /\ info[c].ci_master_key = NULL
  /\ info[c].ci_ctfm = NoTfm
  /\ IsSecret(info[c].ci_raw_key)
  /\ info[c].ci_raw_key.len = available_modes[info[c].ci_mode].keysize

C15_FullyConstructed(c) ==
  /\ info[c].live
  /\ info[c].ci_mode \in ModeIds
  /\ Cardinality({k \in {"shared", "private", "inline"} :
                    \/ k = "shared" /\ C15_Shared(c)
                    \/ k = "private" /\ C15_Private(c)
                    \/ k = "inline" /\ C15_Inline(c)}) = 1
  /\ available_modes[info[c].ci_mode].needs_essiv
       => /\ info[c].ci_essiv_tfm \in Handles
          /\ IsSecret(KeyOf(info[c].ci_essiv_tfm))

\* a step that sets the slot of inode i
C15_PublishStep(i) ==
  (i_crypt_info[i] = NULL /\ i_crypt_info'[i] # NULL)
    => \E t \in Threads :
         /\ pc[t] = "install" /\ loc[t].inode = i /\ loc[t].res = "0"
         /\ i_crypt_info'[i] = loc[t].crypt_info
         /\ C15_FullyConstructed(loc[t].crypt_info)

\* C15: every info in the slot of an inode that is not being evicted is
\* fully constructed: its mode is set and exactly one of these holds: it
\* references a live cache entry and its transform is the entry's
\* (DIRECT_KEY); it owns a keyed transform and references no entry; its mode
\* is inline and it holds the raw key with no transform.  A slot is set only
\* by the compare-and-install of a resolve whose candidate was already fully
\* constructed, with no error pending.
C15_InstalledIsConstructed ==
  /\ [](\A c \in InstalledInfos : C15_FullyConstructed(c))
  /\ [][\A i \in Inodes : C15_PublishStep(i)]_vars

\* C15 witness: an info with an inline mode, holding the raw key, is
\* installed by a resolve that has returned
C15_Witness ==
  \E c \in InstalledInfos :
    /\ C15_Inline(c)
    /\ \E t \in Threads : Returned(t) /\ "installed" \in loc[t].steps

(* ---- C16 ---- *)
\* C16: neither WARN_ON of setup_crypto_transform() ever fires: no resolve
\* reaches the ESSIV setup with a mode whose IV size is not the block size,
\* nor with a DIRECT_KEY policy, on any path, the one through the
\* classification-aware provider included.
C16_EssivNeverWithDirectKey ==
  /\ "essiv_ivsize" \notin warned
  /\ "essiv_direct_key" \notin warned
  /\ \A t \in Threads :
       pc[t] \in {"essiv", "essiv_cmpxchg"}
         => ~HasDirectKey(info[loc[t].crypt_info].ci_flags)

(* ---- C17 ---- *)
\* C17: no thread allocates, keys or destroys a transform, or frees a cache
\* entry (the candidate discarded on a match included), while it holds the
\* table lock; the lock is held only by a thread inside the lookup-or-insert
\* of find_or_insert_master_key() or the decrement-and-unlink of
\* put_master_key(), so it is never held by an operation that has returned.
C17_LockScope ==
  /\ lockedOps = {}
  /\ fscrypt_master_keys_lock \in Threads \cup {NULL}
  /\ \A t \in Threads :
       fscrypt_master_keys_lock = t => pc[t] \in {"mk_find", "put_mk_locked"}

\* C17 witness: two resolves that each built a candidate entry share one
\* entry, so one of them found the other's entry and freed its own
\* candidate, and nobody holds the lock
C17_Witness ==
  \E t, u \in Threads :
    /\ t # u
    /\ pc[t] = "install" /\ pc[u] = "install"
    /\ HasEntry(t) /\ HasEntry(u)
    /\ info[loc[t].crypt_info].ci_master_key = info[loc[u].crypt_info].ci_master_key
    /\ "cipher_alloc" \in loc[t].steps /\ "cipher_alloc" \in loc[u].steps
    /\ Cardinality({m \in MkIds : mk[m].live}) = 1
    /\ fscrypt_master_keys_lock = NULL

(* ---- C18 ---- *)
\* the SHA-256 transforms that are allocated
HashHandles == {h \in Handles : h.owner = "shash"}

\* C18: once the global slot holds a hash transform it never changes; the
\* published transform stays allocated; every thread that has computed its
\* digest used the published transform; the only other hash transforms
\* allocated are those of threads that have not done their compare-and-swap
\* yet, so that a loser frees its own and exactly one stays.
C18_HashPublishedOnce ==
  /\ [][essiv_hash_tfm # NoTfm => essiv_hash_tfm' = essiv_hash_tfm]_vars
  /\ [](essiv_hash_tfm # NoTfm => essiv_hash_tfm \in HashHandles)
  /\ [](\A t \in Threads :
          loc[t].hash_used # NoTfm => loc[t].hash_used = essiv_hash_tfm)
  /\ [](HashHandles =
          ({essiv_hash_tfm} \ {NoTfm})
            \cup {loc[t].shash : t \in {u \in Threads : pc[u] = "essiv_cmpxchg"}})
  /\ [](\A t \in Threads : pc[t] # "essiv_cmpxchg" => loc[t].shash = NoTfm)

\* C18 witness: two threads found the slot empty and each allocated a hash
\* transform; one has published its own and computed its digest with it,
\* the other still holds its own and is about to lose the compare-and-swap
C18_Witness ==
  \E t, u \in Threads :
    /\ t # u
    /\ pc[t] = "essiv_cmpxchg"
    /\ loc[t].shash = Tfm("shash", t) /\ loc[t].shash \in HashHandles
    /\ essiv_hash_tfm = Tfm("shash", u)
    /\ pc[u] = "install" /\ loc[u].hash_used = essiv_hash_tfm

(* ---- C19 ---- *)
\* the step in which thread t leaves the validation and derivation it does
\* with the key's semaphore held
C19_KeyStep(t) ==
  (pc[t] = "lock_key" /\ loc'[t] # loc[t])
    => /\ loc'[t].key = NoKey
       /\ ~loc'[t].key_locked
       /\ LET n == Len(loc'[t].lookups)
              valid == payload_valid(keyring[loc[t].key],
                                     available_modes[loc[t].mode].keysize)
          IN /\ n = Len(loc[t].lookups) + 1
             /\ loc'[t].lookups[n].r = IF valid THEN "0" ELSE "ENOKEY"
             /\ ~valid => "derive" \notin loc'[t].steps

\* C19: the key's read lock and the key handle are balanced: a lookup that
\* fails the validation of the payload (revoked, wrong size, length outside
\* 1..FS_MAX_KEY_SIZE or below the mode's key size) releases both and
\* reports -ENOKEY; a validated key is released after the derivation,
\* whatever its outcome; no thread holds a key's lock between two steps, a
\* key handle is held only between request_key() and that release, and
\* a resolve that has returned holds neither.
C19_KeyLockBalanced ==
  /\ [](\A t \in Threads :
          /\ ~loc[t].key_locked
          /\ loc[t].key # NoKey => pc[t] = "lock_key")
  /\ [][\A t \in Threads : C19_KeyStep(t)]_vars

\* C19 witness: a resolve found a valid key, had its DIRECT_KEY policy
\* rejected under the key's lock, and has returned -EINVAL
C19_Witness ==
  \E t \in Threads :
    /\ Returned(t)
    /\ InconsistentDirectKey(loc[t].inode)
    /\ loc[t].lookups # << >>
    /\ loc[t].lookups[Len(loc[t].lookups)].r = "0"
    /\ loc[t].res = "EINVAL"
    /\ loc[t].key = NoKey /\ ~loc[t].key_locked

(* ---- C20 ---- *)
\* the lookups of a resolve of inode i, in order
C20_LookupOrder(ls, i) ==
  /\ Len(ls) <= 2
  /\ Len(ls) >= 1 => ls[1].prefix = FS_KEY_DESC_PREFIX
  /\ Len(ls) = 2 => /\ ls[2].prefix = FS_KEY_PREFIX
                    /\ ls[1].r = "ENOKEY"
                    /\ policy[i].key_prefix

\* C20: the first lookup of a resolve uses the standard prefix; a second
\* lookup is made, with the filesystem's prefix, only after the first
\* returned -ENOKEY and only when the filesystem has a prefix; a resolve
\* that has returned after a first lookup that gave -ENOKEY on such a
\* filesystem has made the second one; and a resolve whose lookups end in
\* -ENOKEY has had -ENOKEY from every configured prefix.
C20_PrefixOrder ==
  \A t \in Threads :
    loc[t].op = "get" =>
      LET ls == loc[t].lookups  i == loc[t].inode IN
      /\ C20_LookupOrder(ls, i)
      /\ (Returned(t) /\ ls # << >> /\ ls[1].r = "ENOKEY" /\ policy[i].key_prefix)
           => Len(ls) = 2
      /\ (Returned(t) /\ NoKeyFound(t))
           => /\ Len(ls) = IF policy[i].key_prefix THEN 2 ELSE 1
              /\ \A n \in 1..Len(ls) : ls[n].r = "ENOKEY"

\* C20 witness: on a filesystem with a prefix, a resolve found no key under
\* the standard prefix and a valid key under the filesystem's prefix
C20_Witness ==
  \E t \in Threads :
    /\ Returned(t)
    /\ policy[loc[t].inode].key_prefix
    /\ Len(loc[t].lookups) = 2
    /\ loc[t].lookups[1].r = "ENOKEY"
    /\ loc[t].lookups[2].r = "0"
    /\ "installed" \in loc[t].steps

(* ---- C21 ---- *)
\* the first n bytes of master key kid, unchanged
C21_MasterKeyBytes(k, kid, n) ==
  k.kind = "raw" /\ k.kid = kid /\ k.len = n

\* the step in which find_and_derive_key() of thread t succeeds and the
\* caller goes on to set up the cipher with the key it wrote
C21_DeriveStep(t) ==
  (pc[t] = "lock_key" /\ pc'[t] \in {"install", "mk_find_lock", "essiv"})
    => LET c == loc[t].crypt_info
           ci == info[c]
           mode == available_modes[ci.ci_mode]
           kid == keyring[loc[t].key].payload.kid
           k == loc'[t].raw_key
       IN IF HasDirectKey(ci.ci_flags)
          THEN /\ mode.ivsize >= IV_NONCE_END
               /\ ci.ci_data_mode = ci.ci_filename_mode
               /\ ~mode.inline_encryption
               /\ C21_MasterKeyBytes(k, kid, mode.keysize)
               /\ pc'[t] = "mk_find_lock"
          ELSE IF mode.inline_encryption
          THEN /\ C21_MasterKeyBytes(k, kid, mode.keysize)
               /\ C21_MasterKeyBytes(info'[c].ci_raw_key, kid, mode.keysize)
               /\ pc'[t] = "install"
               /\ info'[c].ci_ctfm = NoTfm /\ info'[c].ci_essiv_tfm = NoTfm
               /\ info'[c].ci_master_key = NULL
               /\ tfms' = tfms /\ mk' = mk
               /\ fscrypt_master_keys' = fscrypt_master_keys
          ELSE /\ k.kind = "aes" /\ k.kid = kid /\ k.len = mode.keysize
               /\ k.nonce = NonceOf(loc[t].inode)
               /\ [h |-> Tfm("ci", c), key |-> k] \in tfms'
               /\ info'[c].ci_raw_key = Zeroed

\* C21: when find_and_derive_key() succeeds, the key it hands to the cipher
\* setup is: with DIRECT_KEY (the IV holds the nonce, both modes equal) the
\* first keysize bytes of the master key, taken to the master key table;
\* otherwise with an inline mode the first keysize bytes of the master key,
\* copied to the info's raw key buffer with no transform and no table entry
\* made; otherwise the AES derivation of the master key under the inode's
\* nonce, which keys the info's own transform.  DIRECT_KEY is tested first:
\* a DIRECT_KEY file with an inline mode is rejected, never set up as inline.
C21_KeyByPolicy ==
  /\ [][\A t \in Threads : C21_DeriveStep(t)]_vars
  /\ [](\A t \in Threads :
         (Returned(t) /\ policy[loc[t].inode] = DirectInlinePolicy
            /\ "derive" \in loc[t].steps)
           => loc[t].res = "EINVAL" /\ "installed" \notin loc[t].steps)
  /\ [](\A c \in InstalledInfos :
         available_modes[info[c].ci_mode].inline_encryption
           => /\ info[c].ci_ctfm = NoTfm /\ info[c].ci_master_key = NULL
              /\ info[c].ci_essiv_tfm = NoTfm)

\* C21 witness: a DIRECT_KEY file with an inline mode found a valid key and
\* was rejected
C21_Witness ==
  \E t \in Threads :
    /\ Returned(t)
    /\ policy[loc[t].inode] = DirectInlinePolicy
    /\ "derive" \in loc[t].steps
    /\ loc[t].res = "EINVAL"

(* ---- C22 ---- *)
\* inode i has a context that passes the checks made before
\* select_encryption_mode(), and an allowed pair of modes
C22_Selectable(i) ==
  LET ctx == get_context(i) IN
  /\ validate_context(ctx) = "0"
  /\ fscrypt_valid_enc_modes(ctx.contents_encryption_mode,
                             ctx.filenames_encryption_mode)

\* what select_encryption_mode() gives a regular file, a directory and a
\* symbolic link: every resolve that has gone past it carries the contents
\* mode for a regular file (an inline mode only on a volume that supports
\* it), the filenames mode for a directory or a symbolic link, whatever the
\* contents mode and the volume; a regular file with an inline mode on a
\* volume without support fails and installs nothing, and the selection never
\* fails a directory or a symbolic link (their -EINVAL comes after a key was
\* looked up or handed over)
C22_ModeByKind ==
  \A t \in Threads :
    LET i == loc[t].inode
        ctx == get_context(i)
    IN /\ InFlight(t)
          => /\ C22_Selectable(i)
             /\ policy[i].kind \in {"REG", "DIR", "LNK"}
             /\ policy[i].kind = "REG"
                  => /\ loc[t].mode = ctx.contents_encryption_mode
                     /\ available_modes[loc[t].mode].inline_encryption
                          => policy[i].ice
             /\ policy[i].kind \in {"DIR", "LNK"}
                  => loc[t].mode = ctx.filenames_encryption_mode
       /\ (Returned(t) /\ "get_context" \in loc[t].steps /\ C22_Selectable(i)
            /\ policy[i].kind = "REG" /\ ~policy[i].ice
            /\ available_modes[ctx.contents_encryption_mode].inline_encryption)
           => /\ loc[t].res \in {"EINVAL", "ENOMEM"}
              /\ "installed" \notin loc[t].steps
              /\ loc[t].lookups = << >>
       /\ (Returned(t) /\ "get_context" \in loc[t].steps /\ C22_Selectable(i)
            /\ policy[i].kind \in {"DIR", "LNK"} /\ loc[t].res = "EINVAL")
           => loc[t].lookups # << >> \/ "derive" \in loc[t].steps

\* a resolve of an inode that is no regular file, directory or symbolic
\* link has returned, with a context that passes the earlier checks
C22_OtherKindReturned(t) ==
  /\ Returned(t)
  /\ "get_context" \in loc[t].steps
  /\ C22_Selectable(loc[t].inode)
  /\ policy[loc[t].inode].kind \notin {"REG", "DIR", "LNK"}

\* C22 as stated: the selection of a mode for an inode of another kind is
\* fatal, so no resolve of such an inode comes back to its caller with the
\* error of the selection; the modes of the other kinds are as above.
C22_OtherKindIsFatal ==
  /\ C22_ModeByKind
  /\ \A t \in Threads : C22_OtherKindReturned(t) => loc[t].res # "EINVAL"

\* C22 amended: the selection of a mode for an inode of another kind warns
\* once and gives -EINVAL, which the resolve returns to its caller with
\* nothing installed and no key looked up (-ENOMEM when the candidate could
\* not be allocated before the selection); the modes of the other kinds are
\* as above.
C22_OtherKindReturnsEINVAL ==
  /\ C22_ModeByKind
  /\ \A t \in Threads :
       C22_OtherKindReturned(t)
         => /\ loc[t].res \in {"EINVAL", "ENOMEM"}
            /\ loc[t].res = "EINVAL" => "not_encryptable" \in warned
            /\ "installed" \notin loc[t].steps
            /\ loc[t].lookups = << >>
            /\ i_crypt_info[loc[t].inode] = NULL
  /\ "not_encryptable" \in warned
       => \E i \in Inodes : policy[i].kind \notin {"REG", "DIR", "LNK"}

\* C22 witness: the resolve of an inode of another kind has returned -EINVAL
\* after the warning
C22_Witness ==
  \E t \in Threads :
    /\ C22_OtherKindReturned(t)
    /\ loc[t].res = "EINVAL"
    /\ "not_encryptable" \in warned

(* ---- C23 ---- *)
\* the step in which fscrypt_get_master_key() of thread t fails: the thread
\* was in find_or_insert_master_key() and the resolve returns
C23_FailStep(t) ==
  (pc[t] = "mk_find" /\ pc'[t] = "done")
    => LET c == loc[t].crypt_info IN
       /\ loc'[t].res \in {"ENOMEM", "EINVAL"}
       /\ loc[t].to_insert = NULL
       /\ fscrypt_master_keys' = fscrypt_master_keys
       /\ mk' = mk
       /\ tfms' = tfms
       /\ freedSecret' = freedSecret
       /\ info[c].ci_master_key = NULL /\ info[c].ci_ctfm = NoTfm
       /\ info'[c] = FreeInfo
       /\ i_crypt_info' = i_crypt_info
       /\ fscrypt_master_keys_lock' = NULL

\* C23: when the allocation of the entry or of its transform fails in
\* fscrypt_get_master_key(), the resolve returns the error; no candidate is
\* left (it was never inserted, holds no key bytes and is freed); the table,
\* every entry and its count, and the transforms are as before; the info of
\* the caller references no entry and is released without a decrement.
C23_FailedCacheSetup ==
  /\ [][\A t \in Threads : C23_FailStep(t)]_vars
  /\ [](\A m \in MkIds :
         mk[m].live => \/ m \in TableEntries
                       \/ \E t \in Threads : InFlight(t) /\ loc[t].to_insert = m)

\* C23 witness: with an entry in the table, a resolve of a DIRECT_KEY file
\* that found no entry for its key failed before it had a transform, and
\* the entry is still there with its count
C23_Witness ==
  \E t \in Threads :
    /\ Returned(t)
    /\ "cache" \in loc[t].steps
    /\ "cipher_alloc" \notin loc[t].steps
    /\ ~available_modes[policy[loc[t].inode].contents_encryption_mode].needs_essiv
    /\ loc[t].res \in {"ENOMEM", "EINVAL"}
    /\ fscrypt_master_keys # << >>
    /\ \A m \in TableEntries : mk[m].live /\ mk[m].mk_refcount = 1

(* ---- C24 ---- *)
\* C24 as stated: in every reachable state a slot that is not NULL refers
\* to an info that is live, not yet freed.
C24_SlotRefersToLive ==
  \A i \in Inodes :
    i_crypt_info[i] # NULL => info[i_crypt_info[i]].live

\* a resolve of inode i starts and reads the slot
C24_ReadStep(t, i) ==
  (pc[t] = "idle" /\ pc'[t] # "idle" /\ loc'[t].op = "get"
     /\ loc'[t].inode = i /\ i_crypt_info[i] # NULL)
    => /\ info[i_crypt_info[i]].live
       /\ info[i_crypt_info[i]].inode = i
       /\ loc'[t].res = "0"

\* a step that frees the info in the slot of inode i is the put_crypt_info()
\* of a release of i, which has the slot still to clear
C24_FreeStep(i) ==
  LET c == i_crypt_info[i] IN
  (c # NULL /\ info[c].live /\ info[c].inode = i /\ ~info'[c].live)
    => \E t \in Threads :
         /\ loc'[t].op = "put" /\ loc'[t].inode = i
         /\ pc'[t] = "put_clear"
         /\ i_crypt_info'[i] = c

\* C24 amended: fscrypt_put_encryption_info() frees the info first and
\* clears the slot afterwards, so while an inode is being released its slot
\* refers to an info already freed; the slot of an inode that is not being
\* released is NULL or refers to a live info of that inode; only the release
\* of an inode frees the info in its slot; and, release being called only
\* for an inode that is being evicted, every resolve that reads a slot that
\* is not NULL reads one that refers to a live info.
C24_SlotLiveUnlessReleasing ==
  /\ [](\A i \in Inodes :
         (i_crypt_info[i] # NULL /\ ~Evicting(i))
           => /\ info[i_crypt_info[i]].live
              /\ info[i_crypt_info[i]].inode = i)
  /\ [](\A t \in Threads :
         (pc[t] = "put_clear" /\ i_crypt_info[loc[t].inode] # NULL)
           => info[i_crypt_info[loc[t].inode]].inode # loc[t].inode)
  /\ [][\A i \in Inodes : C24_FreeStep(i)]_vars
  /\ [][\A t \in Threads, i \in Inodes : C24_ReadStep(t, i)]_vars

\* C24 witness: a release has freed the info of its inode and not yet
\* cleared the slot, while another thread has read the slot of another
\* inode, found an info there and returned
C24_Witness ==
  \E t \in Threads, u \in Threads :
    /\ pc[t] = "put_clear"
    /\ i_crypt_info[loc[t].inode] # NULL
    /\ ~info[i_crypt_info[loc[t].inode]].live
    /\ Returned(u) /\ loc[u].steps = {} /\ loc[u].res = "0"
    /\ loc[u].inode # loc[t].inode
    /\ i_crypt_info[loc[u].inode] # NULL

====
